---- MODULE Spec2Model ----
(***************************************************************************)
(* The Dead Drop (src/src/App.jsx): the daily puzzle scheduling and        *)
(* scoring engine.  Strings are sequences of one-character strings; a      *)
(* character that a TLA+ string cannot hold (a control character other     *)
(* than \t \n \r \f, the grave accent, a character outside ASCII) is      *)
(* the string "U+" with the four hex digits of its code unit, as "U+00A0"; *)
(* a character beyond U+FFFF is its two surrogate code units.              *)
(* The clock counts hours from the epoch instant (local midnight of        *)
(* 2024-01-01), timers count slots of 100 ms.                              *)
(***************************************************************************)
EXTENDS Integers, Sequences, FiniteSets, TLC

\* ------------------------------------------------------------------ bounds
\* last hour of the clock explored by the game, counted from the epoch
MaxHour == 24
\* submissions of the answer form in one behaviour of Spec: a success after
\* three wrong guesses takes four
MaxSubmits == 4
\* submissions in one behaviour of SpecLive
LiveSubmits == 2
\* ids of a master order under check, and day offsets it is read at
MaxOrder == 6
MaxOffset == 8
\* characters of a guess tried on the verification function
MaxGuessLen == 3
\* last hour of the clock walked by SpecClock (2024-11-06 00:00)
ClockEnd == 7440

\* ------------------------------------------------------- program constants
\* 86400000 ms, in hours (the unit of the clock)
DayLen == 24
\* puzzles of one daily set
SetSize == 5
\* the three settle delays, in slots of 100 ms
DelayVerify == 4
DelayError == 8
DelaySuccess == 15

\* ------------------------------------------------------------ JS helpers
\* null / undefined of JavaScript
null == <<"null">>
undefined == 0

Digits == <<"0", "1", "2", "3", "4", "5", "6", "7", "8", "9">>
IsDigit(c) == \E i \in 1..10 : Digits[i] = c
DigitVal(c) == (CHOOSE i \in 1..10 : Digits[i] = c) - 1
\* the characters of \s in a regular expression, which are also the white
\* space parseInt skips (WhiteSpace and LineTerminator of ECMA-262)
WhiteSpace ==
  {" ", "\t", "\n", "\r", "\f", "U+000B", "U+00A0", "U+1680", "U+2000",
   "U+2001", "U+2002", "U+2003", "U+2004", "U+2005", "U+2006", "U+2007",
   "U+2008", "U+2009", "U+200A", "U+2028", "U+2029", "U+202F", "U+205F",
   "U+3000", "U+FEFF"}
IsSpace(c) == c \in WhiteSpace

\* the decimal digits of a natural number
RECURSIVE DecimalDigits(_)
DecimalDigits(n) == IF n < 10 THEN <<Digits[n + 1]>>
                    ELSE DecimalDigits(n \div 10) \o <<Digits[(n % 10) + 1]>>

\* the value of a string of at most nine digits
RECURSIVE DigitsVal(_)
DigitsVal(s) == IF s = <<>> THEN 0
                ELSE 10 * DigitsVal(SubSeq(s, 1, Len(s) - 1)) + DigitVal(s[Len(s)])

\* the position of the first character of s that is no digit (that is no
\* white space), and one past the end of s when every character is one
FirstNonDigit(s) ==
  IF \A i \in 1..Len(s) : IsDigit(s[i]) THEN Len(s) + 1
  ELSE CHOOSE i \in 1..Len(s) : ~IsDigit(s[i]) /\ \A j \in 1..(i - 1) : IsDigit(s[j])
FirstNonSpace(s) ==
  IF \A i \in 1..Len(s) : IsSpace(s[i]) THEN Len(s) + 1
  ELSE CHOOSE i \in 1..Len(s) : ~IsSpace(s[i]) /\ \A j \in 1..(i - 1) : IsSpace(s[j])
\* the longest prefix of s made of digits
DigitPrefix(s) == SubSeq(s, 1, FirstNonDigit(s) - 1)
SkipSpace(s) == SubSeq(s, FirstNonSpace(s), Len(s))

\* ------------------------------------------------------------------ JSON
\* A JSON value other than an array of integers is a tagged record: [lit]
\* for null, true and false, [num] for a number whose value is an integer
\* below 10^9, [dec] for another finite number (its sign, its significant
\* digits d1..dk and the n of 0.d1..dk * 10^n; the digits are the shortest
\* that give the double back), [inf] for a number beyond the doubles, [str],
\* [arr] and [obj] (the properties in the order the object enumerates them).
\* An array of integers in memory is the plain sequence of them; any other
\* value the history can hold is wrapped as [json |-> value].
IsPlain(h) == ToString(DOMAIN h) # ToString({"json"})

\* the characters U+0000 to U+007F, at the place of their code plus one
AsciiChars ==
  <<"U+0000", "U+0001", "U+0002", "U+0003", "U+0004", "U+0005", "U+0006",
    "U+0007", "U+0008", "\t", "\n", "U+000B", "\f", "\r", "U+000E", "U+000F",
    "U+0010", "U+0011", "U+0012", "U+0013", "U+0014", "U+0015", "U+0016",
    "U+0017", "U+0018", "U+0019", "U+001A", "U+001B", "U+001C", "U+001D",
    "U+001E", "U+001F", " ", "!", "\"", "#", "$", "%", "&", "'", "(", ")",
    "*", "+", ",", "-", ".", "/", "0", "1", "2", "3", "4", "5", "6", "7",
    "8", "9", ":", ";", "<", "=", ">", "?", "@", "A", "B", "C", "D", "E",
    "F", "G", "H", "I", "J", "K", "L", "M", "N", "O", "P", "Q", "R", "S",
    "T", "U", "V", "W", "X", "Y", "Z", "[", "\\", "]", "^", "_", "U+0060",
    "a", "b", "c", "d", "e", "f", "g", "h", "i", "j", "k", "l", "m", "n",
    "o", "p", "q", "r", "s", "t", "u", "v", "w", "x", "y", "z", "{", "|",
    "}", "~", "U+007F">>
HexDigits == <<"0", "1", "2", "3", "4", "5", "6", "7", "8", "9",
               "a", "b", "c", "d", "e", "f">>
HexUpper == <<"0", "1", "2", "3", "4", "5", "6", "7", "8", "9",
              "A", "B", "C", "D", "E", "F">>
IsHex(c) == \E i \in 1..16 : c = HexDigits[i] \/ c = HexUpper[i]
HexVal(c) == (CHOOSE i \in 1..16 : c = HexDigits[i] \/ c = HexUpper[i]) - 1
\* the character of the escape \uh1h2h3h4
CodeUnit(h1, h2, h3, h4) ==
  IF HexVal(h1) = 0 /\ HexVal(h2) = 0 /\ HexVal(h3) < 8
  THEN AsciiChars[HexVal(h3) * 16 + HexVal(h4) + 1]
  ELSE "U+" \o HexUpper[HexVal(h1) + 1] \o HexUpper[HexVal(h2) + 1]
            \o HexUpper[HexVal(h3) + 1] \o HexUpper[HexVal(h4) + 1]
IsControl(c) == \E i \in 1..32 : AsciiChars[i] = c
ControlCode(c) == (CHOOSE i \in 1..32 : AsciiChars[i] = c) - 1
\* the code unit of number n
Unit(n) ==
  IF n < 128 THEN AsciiChars[n + 1]
  ELSE "U+" \o HexUpper[(n \div 4096) + 1] \o HexUpper[((n \div 256) % 16) + 1]
            \o HexUpper[((n \div 16) % 16) + 1] \o HexUpper[(n % 16) + 1]
\* the code units U+D800 to U+DBFF and U+DC00 to U+DFFF: one of the first
\* followed by one of the second is one character beyond U+FFFF
HighSurrogates == {Unit(n) : n \in 55296..56319}
LowSurrogates == {Unit(n) : n \in 56320..57343}
SurrogateCode(c) == CHOOSE n \in 55296..57343 : Unit(n) = c
\* the character of code point n, as code units
CodePoint(n) ==
  IF n < 65536 THEN <<Unit(n)>>
  ELSE <<Unit(55296 + ((n - 65536) \div 1024)), Unit(56320 + ((n - 65536) % 1024))>>
\* the character that starts at position i of s, and the one that ends there
PairAt(s, i) ==
  i >= 1 /\ i < Len(s) /\ s[i] \in HighSurrogates /\ s[i + 1] \in LowSurrogates
CharAt(s, i) == IF PairAt(s, i) THEN <<s[i], s[i + 1]>> ELSE <<s[i]>>
CharBefore(s, i) == IF PairAt(s, i - 1) THEN <<s[i - 1], s[i]>> ELSE <<s[i]>>
\* a surrogate that is no half of a pair
LoneAt(s, i) ==
  /\ s[i] \in HighSurrogates \cup LowSurrogates
  /\ ~PairAt(s, i) /\ ~PairAt(s, i - 1)
\* the characters of s, one element each (the string iterator)
RECURSIVE CharsFrom(_, _)
CharsFrom(s, i) ==
  IF i > Len(s) THEN <<>>
  ELSE <<CharAt(s, i)>> \o CharsFrom(s, i + Len(CharAt(s, i)))

Chars(word) ==
  CASE word = "null" -> <<"n", "u", "l", "l">>
    [] word = "true" -> <<"t", "r", "u", "e">>
    [] word = "false" -> <<"f", "a", "l", "s", "e">>

\* the digits of s from position i on, up to the first character that is none
DigitRun(s, i) == IF i > Len(s) THEN <<>> ELSE DigitPrefix(SubSeq(s, i, Len(s)))
StripLeadingZeros(d) ==
  IF \A i \in 1..Len(d) : d[i] = "0" THEN <<>>
  ELSE SubSeq(d, CHOOSE i \in 1..Len(d) :
                   d[i] # "0" /\ \A j \in 1..(i - 1) : d[j] = "0", Len(d))
StripTrailingZeros(d) ==
  IF \A i \in 1..Len(d) : d[i] = "0" THEN <<>>
  ELSE SubSeq(d, 1, CHOOSE i \in 1..Len(d) :
                      d[i] # "0" /\ \A j \in (i + 1)..Len(d) : d[j] = "0")
RECURSIVE Pow10(_)
Pow10(k) == IF k = 0 THEN 1 ELSE 10 * Pow10(k - 1)
RECURSIVE Zeros(_)
Zeros(k) == IF k <= 0 THEN <<>> ELSE <<"0">> \o Zeros(k - 1)

\* the value of the exponent digits exp with the sign expNeg; an exponent of
\* more than five digits is beyond every double
Exponent(expNeg, exp) ==
  (IF expNeg THEN -1 ELSE 1)
    * (IF Len(StripLeadingZeros(exp)) > 5 THEN 99999
       ELSE DigitsVal(StripLeadingZeros(exp)))
\* ------------------------------------------------------- numbers as doubles
\* A natural number of any size is the sequence of its decimal digits (0..9),
\* the least significant first and none for zero. The operators on them keep
\* the recursion shallow: carries are settled place by place from the places
\* below, not by a walk along the number.
MaxOf(a, b) == IF a >= b THEN a ELSE b
RECURSIVE IntPow(_, _)
IntPow(b, k) == IF k = 0 THEN 1 ELSE b * IntPow(b, k - 1)
\* a without the zeros at its top
TrimTop(a) ==
  IF \A i \in 1..Len(a) : a[i] = 0 THEN <<>>
  ELSE SubSeq(a, 1, CHOOSE i \in 1..Len(a) :
                      a[i] # 0 /\ \A j \in (i + 1)..Len(a) : a[j] = 0)
\* a (other than zero) without the zeros at its bottom
TrimBottom(a) ==
  SubSeq(a, CHOOSE i \in 1..Len(a) : a[i] # 0 /\ \A j \in 1..(i - 1) : a[j] = 0,
         Len(a))
BigAt(a, i) == IF i >= 1 /\ i <= Len(a) THEN a[i] ELSE 0
\* one pass of carrying: every place keeps its last digit and takes over what
\* the place below has beyond its last digit
Pass(v) ==
  SubSeq([i \in 1..(Len(v) + 1) |-> (BigAt(v, i) % 10) + (BigAt(v, i - 1) \div 10)],
         1, Len(v) + 1)
\* the digit of n that counts 10^t
DigitOf(n, t) ==
  CASE t = 0 -> n % 10
    [] t = 1 -> (n \div 10) % 10
    [] t = 2 -> (n \div 100) % 10
    [] t = 3 -> (n \div 1000) % 10
    [] t = 4 -> (n \div 10000) % 10
    [] t = 5 -> (n \div 100000) % 10
    [] t = 6 -> (n \div 1000000) % 10
    [] t = 7 -> (n \div 10000000) % 10
    [] t = 8 -> (n \div 100000000) % 10
\* places of up to 9 * 10^8 are written out in columns, as in a long
\* multiplication: a place takes one digit of each of the nine places from
\* it downwards, 81 at most
Column(v, p) ==
  DigitOf(BigAt(v, p), 0) + DigitOf(BigAt(v, p - 1), 1) + DigitOf(BigAt(v, p - 2), 2)
    + DigitOf(BigAt(v, p - 3), 3) + DigitOf(BigAt(v, p - 4), 4)
    + DigitOf(BigAt(v, p - 5), 5) + DigitOf(BigAt(v, p - 6), 6)
    + DigitOf(BigAt(v, p - 7), 7) + DigitOf(BigAt(v, p - 8), 8)
Columns(v) == SubSeq([p \in 1..(Len(v) + 8) |-> Column(v, p)], 1, Len(v) + 8)
\* the distance from place i down to the nearest place that holds no d
Nearest(v, i, d) ==
  CHOOSE k \in 1..(i - 1) : v[i - k] # d /\ \A j \in 1..(k - 1) : v[i - j] = d
\* the carry into place i of places that hold 18 at most: the nearest place
\* below that holds no 9 gives it
CarryIn(v, i) ==
  IF \A j \in 1..(i - 1) : v[i - j] = 9 THEN 0
  ELSE IF v[i - Nearest(v, i, 9)] >= 10 THEN 1 ELSE 0
Resolved(v) ==
  SubSeq([i \in 1..(Len(v) + 1) |-> (BigAt(v, i) + CarryIn(v, i)) % 10],
         1, Len(v) + 1)
\* the number with the places raw, each at most 18, 99 or 9 * 10^8
BigOf18(raw) == TrimTop(Resolved(raw))
BigOf99(raw) == TrimTop(Resolved(Pass(raw)))
Big(raw) == TrimTop(Resolved(Pass(Columns(raw))))
Places(a, n) == SubSeq([i \in 1..n |-> BigAt(a, i)], 1, n)
Sums(a, b) == [i \in 1..Len(a) |-> a[i] + b[i]]
BigAdd(a, b) ==
  BigOf18(Sums(Places(a, MaxOf(Len(a), Len(b))), Places(b, MaxOf(Len(a), Len(b)))))
\* the borrow into place i of places between -9 and 9: the nearest place
\* below that holds no 0 gives it
BorrowIn(v, i) ==
  IF \A j \in 1..(i - 1) : v[i - j] = 0 THEN 0
  ELSE IF v[i - Nearest(v, i, 0)] < 0 THEN 1 ELSE 0
Borrowed(v) == SubSeq([i \in 1..Len(v) |-> (v[i] - BorrowIn(v, i)) % 10], 1, Len(v))
Differences(a, b) == SubSeq([i \in 1..Len(a) |-> a[i] - BigAt(b, i)], 1, Len(a))
\* a - b for a >= b
BigSub(a, b) == TrimTop(Borrowed(Differences(a, b)))
Products(a, k) == SubSeq([i \in 1..Len(a) |-> a[i] * k], 1, Len(a))
\* a * k for 0 <= k < 10^8
BigTimes(a, k) == IF k < 10 THEN BigOf99(Products(a, k)) ELSE Big(Products(a, k))
\* a * 10^k
BigShift(a, k) == IF a = <<>> THEN <<>> ELSE [i \in 1..k |-> 0] \o a
RECURSIVE BigTimesPow(_, _, _, _)
\* a * b^k, the power being halved until it is at most step
BigTimesPow(a, b, k, step) ==
  IF a = <<>> THEN <<>>
  ELSE IF k <= step THEN BigTimes(a, IntPow(b, k))
  ELSE BigTimesPow(BigTimesPow(a, b, k \div 2, step), b, k - (k \div 2), step)
BigTimesPow2(a, k) == BigTimesPow(a, 2, k, 20)
BigTimesPow5(a, k) == BigTimesPow(a, 5, k, 10)
\* how far below the top the highest place lies where a and b differ
TopDifference(a, b) ==
  CHOOSE k \in 0..(Len(a) - 1) :
    /\ a[Len(a) - k] # b[Len(a) - k]
    /\ \A j \in 0..(k - 1) : a[Len(a) - j] = b[Len(a) - j]
Differing(a, b, i) == IF a[i] > b[i] THEN 1 ELSE -1
\* 1, 0 or -1 as a is greater than, equal to or less than b
BigCmp(a, b) ==
  IF Len(a) > Len(b) THEN 1
  ELSE IF Len(a) < Len(b) THEN -1
  ELSE IF a = b THEN 0
  ELSE Differing(a, b, Len(a) - TopDifference(a, b))
BigOfDigits(d) == TrimTop(SubSeq([i \in 1..Len(d) |-> DigitVal(d[Len(d) + 1 - i])], 1, Len(d)))
DigitsOfBig(a) == [i \in 1..Len(a) |-> Digits[a[Len(a) + 1 - i] + 1]]

\* the digit d of the quotient of r by bp, where r < 10 * bp
QuotientDigit(r, bp) ==
  IF Len(bp) > Len(r) THEN 0
  ELSE CHOOSE d \in 0..9 :
         /\ BigCmp(BigTimes(bp, d), r) <= 0
         /\ d = 9 \/ BigCmp(BigTimes(bp, d + 1), r) > 0
\* a division is the quotient q so far and the remainder r; one more digit d
\* of the quotient is taken at place pos
DivTaken(s, bp, d) == [q |-> <<d>> \o s.q, r |-> BigSub(s.r, BigTimes(bp, d))]
DivAt(s, bp) == DivTaken(s, bp, QuotientDigit(s.r, bp))
DivStep(s, b, pos) == DivAt(s, BigShift(b, pos))
RECURSIVE DivRange(_, _, _, _)
\* the digits of the quotient from place hi down to place lo: all of them 0
\* once nothing remains
DivRange(s, b, hi, lo) ==
  IF s.r = <<>> THEN [q |-> [i \in 1..(hi - lo + 1) |-> 0] \o s.q, r |-> s.r]
  ELSE IF hi = lo THEN DivStep(s, b, hi)
  ELSE DivRange(DivRange(s, b, hi, ((hi + lo) \div 2) + 1), b, (hi + lo) \div 2, lo)
Quotient(s) == [q |-> TrimTop(s.q), r |-> s.r]
\* a divided by b, for a quotient below 10^17
BigDiv(a, b) ==
  IF Len(b) > Len(a) THEN [q |-> <<>>, r |-> a]
  ELSE Quotient(DivRange([q |-> <<>>, r |-> a], b, 16, 0))

TwoTo52 == BigTimesPow2(<<1>>, 52)
TwoTo53 == BigTimesPow2(<<1>>, 53)
\* a double is zero, infinite, or m * 2^e with m < 2^53 and e >= -1074
\* (m >= 2^52 unless e = -1074)
Zero == [kind |-> "zero", m |-> <<>>, e |-> 0]
Ranged(m, e) ==
  IF e > 971 THEN [kind |-> "inf", m |-> <<>>, e |-> 0]
  ELSE [kind |-> "finite", m |-> m, e |-> e]
Finite(m, e) ==
  IF m = <<>> THEN Zero
  ELSE IF BigCmp(m, TwoTo53) = 0 THEN Ranged(TwoTo52, e + 1)
  ELSE Ranged(m, e)
\* round to nearest, ties to even: the quotient qr.q with the remainder qr.r
\* of a division by b
RoundedEven(qr, b, e) ==
  IF qr.r = <<>> THEN Finite(qr.q, e)
  ELSE IF BigCmp(BigTimes(qr.r, 2), b) > 0 THEN Finite(BigAdd(qr.q, <<1>>), e)
  ELSE IF BigCmp(BigTimes(qr.r, 2), b) = 0 /\ qr.q # <<>> /\ qr.q[1] % 2 = 1
  THEN Finite(BigAdd(qr.q, <<1>>), e)
  ELSE Finite(qr.q, e)
\* a / b < 2^(53 + k)
Below(a, b, k) == BigCmp(a, BigTimesPow2(b, 53 + k)) < 0
\* by how much the exponent has to rise to bring a / b below 2^53
Rise(a, b) ==
  CHOOSE k \in 0..8 : Below(a, b, k) /\ \A j \in 0..(k - 1) : ~Below(a, b, j)
Divided(a, b, e) == IF BigCmp(a, b) < 0 /\ BigCmp(BigTimes(a, 2), b) < 0 THEN Zero
                    ELSE RoundedEven(BigDiv(a, b), b, e)
Raised(a, b, e, k) == Divided(a, BigTimesPow2(b, k), e + k)
Scaled(a, b, e) == Raised(a, b, e, Rise(a, b))
ScaledFrom(a, b, e) ==
  IF e >= 0 THEN Scaled(a, BigTimesPow2(b, e), e)
  ELSE Scaled(BigTimesPow2(a, -e), b, e)
\* the double nearest to 0.d1..dk * 10^n, sig being the digits d1..dk with
\* d1 and dk other than 0 and -324 < n < 310; the binary exponent is first
\* taken too low, by 8 at most
ToDouble(sig, n) ==
  ScaledFrom(IF n >= Len(sig) THEN BigShift(BigOfDigits(sig), n - Len(sig))
             ELSE BigOfDigits(sig),
             IF n >= Len(sig) THEN <<1>> ELSE BigShift(<<1>>, Len(sig) - n),
             MaxOf(-1074, (((n - 1) * 33219) \div 10000) - 53))

\* the numbers that round to the double m * 2^e lie between low and high,
\* half a step below and above it (a quarter of a step below when m = 2^52,
\* where the step halves), the two ends included when m is even; x is the
\* double itself, and the three are counted in units of 10^point
Step(m, e) == IF BigCmp(m, TwoTo52) = 0 /\ e > -1074 THEN <<1>> ELSE <<2>>
InUnits(v, e) == IF e >= 2 THEN BigTimesPow2(v, e - 2) ELSE BigTimesPow5(v, 2 - e)
Interval(m, e) ==
  [x |-> InUnits(BigTimes(m, 4), e),
   low |-> InUnits(BigSub(BigTimes(m, 4), Step(m, e)), e),
   high |-> InUnits(BigAdd(BigTimes(m, 4), <<2>>), e),
   closed |-> m[1] % 2 = 0,
   point |-> IF e >= 2 THEN 0 ELSE e - 2]
Rounds(c, iv) ==
  IF iv.closed THEN BigCmp(iv.low, c) <= 0 /\ BigCmp(c, iv.high) <= 0
  ELSE BigCmp(iv.low, c) < 0 /\ BigCmp(c, iv.high) < 0
\* x cut after its first k digits, and the next number of k digits above it
Down(x, k) == TrimTop([i \in 1..Len(x) |-> IF i > Len(x) - k THEN x[i] ELSE 0])
Up(x, k) == BigAdd(Down(x, k), BigShift(<<1>>, Len(x) - k))
\* some number of k digits rounds to the double
Fits(iv, k) == Rounds(Down(iv.x, k), iv) \/ Rounds(Up(iv.x, k), iv)
\* of the two numbers of k digits around x, the nearer one of those that
\* round to the double (the even one when they are as near)
Nearer(iv, k, down, up) ==
  IF Rounds(down, iv) /\ Rounds(up, iv)
  THEN (IF \/ BigCmp(BigTimes(iv.x, 2), BigAdd(down, up)) > 0
           \/ /\ BigCmp(BigTimes(iv.x, 2), BigAdd(down, up)) = 0
              /\ down[Len(iv.x) - k + 1] % 2 = 1
        THEN up ELSE down)
  ELSE IF Rounds(down, iv) THEN down ELSE up
\* the least number of digits that will do: 17 are enough for every double
Lengths(iv) == {k \in 1..17 : k < Len(iv.x) /\ Fits(iv, k)}
Least(ks) == CHOOSE k \in ks : \A j \in ks : k <= j
NearestOf(iv, k) == Nearer(iv, k, Down(iv.x, k), Up(iv.x, k))
ShortestOf(iv, ks) == IF ks = {} THEN iv.x ELSE NearestOf(iv, Least(ks))
Shortest(iv) == ShortestOf(iv, Lengths(iv))
\* the shortest digits d1..dk that give the double back and the n of
\* 0.d1..dk * 10^n (Number::toString)
Written(c, point) ==
  [digits |-> DigitsOfBig(TrimBottom(c)), n |-> Len(c) + point]
ShortestIn(iv) == Written(Shortest(iv), iv.point)
ShortestDigits(double) == ShortestIn(Interval(double.m, double.e))

\* the number 0.d1..dk * 10^n as a tagged value: an integer below 10^9 by
\* its value, any other number by its digits
Shaped(neg, digits, n) ==
  IF Len(digits) <= n /\ n <= 9
  THEN [num |-> (IF neg THEN -1 ELSE 1) * DigitsVal(digits) * Pow10(n - Len(digits))]
  ELSE [dec |-> [neg |-> neg, digits |-> digits, n |-> n]]
ShapedAs(neg, written) == Shaped(neg, written.digits, written.n)
FromDouble(neg, double) ==
  IF double.kind = "zero" THEN [num |-> 0]
  ELSE IF double.kind = "inf" THEN [inf |-> neg]
  ELSE ShapedAs(neg, ShortestDigits(double))
\* the double nearest to 0.d1..dk * 10^n with the significant digits
\* sig = d1..dk, held by the shortest digits that read back as that double.
\* Below 10^-324 every number rounds to 0 and from 10^309 on to Infinity; a
\* number of at most 15 digits well inside the range is its own shortest
\* form.
Canonical(neg, sig, n) ==
  IF sig = <<>> \/ n < -323 THEN [num |-> 0]
  ELSE IF n > 309 THEN [inf |-> neg]
  ELSE IF Len(sig) <= 15 /\ -300 <= n /\ n <= 300 THEN Shaped(neg, sig, n)
  ELSE FromDouble(neg, ToDouble(sig, n))
\* the value of the JSON number with the integer digits int, the fraction
\* digits frac and the exponent digits exp (sign expNeg)
NumberValue(neg, int, frac, expNeg, exp) ==
  Canonical(neg, StripTrailingZeros(StripLeadingZeros(int \o frac)),
            Len(int) - (Len(int \o frac) - Len(StripLeadingZeros(int \o frac)))
              + Exponent(expNeg, exp))

\* the parsers give [ok, val, pos]: whether a value starts at position i of
\* s, the value, and the position after it
Failed == [ok |-> FALSE, val |-> [lit |-> "null"], pos |-> 0]
Parsed(v, p) == [ok |-> TRUE, val |-> v, pos |-> p]

\* the white space of JSON: space, tab, line feed, carriage return
RECURSIVE SkipJSONSpace(_, _)
SkipJSONSpace(s, i) ==
  IF i <= Len(s) /\ s[i] \in {" ", "\t", "\n", "\r"}
  THEN SkipJSONSpace(s, i + 1) ELSE i

ParseLiteral(s, i, word) ==
  IF i + Len(Chars(word)) - 1 <= Len(s)
       /\ SubSeq(s, i, i + Len(Chars(word)) - 1) = Chars(word)
  THEN Parsed([lit |-> word], i + Len(Chars(word)))
  ELSE Failed

\* a number is read in four stages: sign, integer digits (a leading 0 stands
\* alone), fraction, exponent; j is the position each stage starts at
NumberEnd(s, neg, int, frac, hasExp, expNeg, exp, j) ==
  IF hasExp /\ exp = <<>> THEN Failed
  ELSE Parsed(NumberValue(neg, int, frac, expNeg, exp), j + Len(exp))
ExponentSign(s, neg, int, frac, signed, j) ==
  NumberEnd(s, neg, int, frac, TRUE, signed /\ s[j + 1] = "-",
            DigitRun(s, IF signed THEN j + 2 ELSE j + 1),
            IF signed THEN j + 2 ELSE j + 1)
ExponentPart(s, neg, int, frac, j) ==
  IF j <= Len(s) /\ s[j] \in {"e", "E"}
  THEN ExponentSign(s, neg, int, frac,
                    j + 1 <= Len(s) /\ s[j + 1] \in {"+", "-"}, j)
  ELSE NumberEnd(s, neg, int, frac, FALSE, FALSE, <<>>, j)
FractionEnd(s, neg, int, hasFrac, frac, j) ==
  IF hasFrac /\ frac = <<>> THEN Failed
  ELSE ExponentPart(s, neg, int, frac, IF hasFrac THEN j + 1 + Len(frac) ELSE j)
FractionPart(s, neg, int, j) ==
  IF int = <<>> THEN Failed
  ELSE FractionEnd(s, neg, int, j <= Len(s) /\ s[j] = ".",
                   IF j <= Len(s) /\ s[j] = "." THEN DigitRun(s, j + 1) ELSE <<>>, j)
IntegerEnd(s, neg, int, j) == FractionPart(s, neg, int, j + Len(int))
IntegerPart(s, neg, run, j) ==
  IntegerEnd(s, neg, IF run # <<>> /\ run[1] = "0" THEN <<"0">> ELSE run, j)
SignPart(s, neg, j) == IntegerPart(s, neg, DigitRun(s, j), j)
ParseNumber(s, i) == SignPart(s, s[i] = "-", IF s[i] = "-" THEN i + 1 ELSE i)

\* the characters of a string from position i on (after its opening quote)
RECURSIVE ParseChars(_, _, _)
ParseChars(s, i, acc) ==
  IF i > Len(s) \/ IsControl(s[i]) THEN Failed
  ELSE IF s[i] = "\"" THEN Parsed([str |-> acc], i + 1)
  ELSE IF s[i] # "\\" THEN ParseChars(s, i + 1, Append(acc, s[i]))
  ELSE IF i + 1 > Len(s) THEN Failed
  ELSE IF s[i + 1] \in {"\"", "\\", "/"}
  THEN ParseChars(s, i + 2, Append(acc, s[i + 1]))
  ELSE IF s[i + 1] = "b" THEN ParseChars(s, i + 2, Append(acc, "U+0008"))
  ELSE IF s[i + 1] = "f" THEN ParseChars(s, i + 2, Append(acc, "\f"))
  ELSE IF s[i + 1] = "n" THEN ParseChars(s, i + 2, Append(acc, "\n"))
  ELSE IF s[i + 1] = "r" THEN ParseChars(s, i + 2, Append(acc, "\r"))
  ELSE IF s[i + 1] = "t" THEN ParseChars(s, i + 2, Append(acc, "\t"))
  ELSE IF /\ s[i + 1] = "u"
          /\ i + 5 <= Len(s)
          /\ \A k \in (i + 2)..(i + 5) : IsHex(s[k])
  THEN ParseChars(s, i + 6,
                  Append(acc, CodeUnit(s[i + 2], s[i + 3], s[i + 4], s[i + 5])))
  ELSE Failed

\* a property name that is an array index (a canonical number below 2^32 - 1)
IsIndexKey(k) ==
  /\ k # <<>>
  /\ \A i \in 1..Len(k) : IsDigit(k[i])
  /\ (Len(k) > 1 => k[1] # "0")
  /\ Len(k) <= 10
  /\ (Len(k) = 10 =>
        \/ DigitsVal(SubSeq(k, 1, 5)) < 42949
        \/ DigitsVal(SubSeq(k, 1, 5)) = 42949 /\ DigitsVal(SubSeq(k, 6, 10)) <= 67294)
IndexLess(a, b) ==
  \/ Len(a) < Len(b)
  \/ /\ Len(a) = Len(b)
     /\ \E i \in 1..Len(a) : /\ SubSeq(a, 1, i - 1) = SubSeq(b, 1, i - 1)
                             /\ DigitVal(a[i]) < DigitVal(b[i])
\* the property key is set to val on the object with the properties ms: an
\* old property keeps its place, an index goes among the indices in
\* ascending order (after before of them), another name goes last
InsertAfter(ms, before, m) ==
  SubSeq(ms, 1, before) \o <<m>> \o SubSeq(ms, before + 1, Len(ms))
SetProperty(ms, key, val) ==
  IF \E i \in 1..Len(ms) : ms[i].key = key
  THEN [i \in 1..Len(ms) |-> IF ms[i].key = key THEN [key |-> key, val |-> val]
                             ELSE ms[i]]
  ELSE IF ~IsIndexKey(key) THEN Append(ms, [key |-> key, val |-> val])
  ELSE InsertAfter(ms, Cardinality({i \in 1..Len(ms) :
                                      IsIndexKey(ms[i].key) /\ IndexLess(ms[i].key, key)}),
                   [key |-> key, val |-> val])

RECURSIVE ParseValue(_, _)
RECURSIVE ParseElements(_, _, _)
RECURSIVE ParseMembers(_, _, _)
\* an array after its "[" and the white space that follows, at position j
ArrayAt(s, j) ==
  IF j <= Len(s) /\ s[j] = "]" THEN Parsed([arr |-> <<>>], j + 1)
  ELSE ParseElements(s, j, <<>>)
\* an object after its "{" and the white space that follows, at position j
ObjectAt(s, j) ==
  IF j <= Len(s) /\ s[j] = "}" THEN Parsed([obj |-> <<>>], j + 1)
  ELSE ParseMembers(s, j, <<>>)
\* the value that starts at position i
ValueAt(s, i) ==
  IF i > Len(s) THEN Failed
  ELSE IF s[i] = "n" THEN ParseLiteral(s, i, "null")
  ELSE IF s[i] = "t" THEN ParseLiteral(s, i, "true")
  ELSE IF s[i] = "f" THEN ParseLiteral(s, i, "false")
  ELSE IF s[i] = "\"" THEN ParseChars(s, i + 1, <<>>)
  ELSE IF s[i] = "-" \/ IsDigit(s[i]) THEN ParseNumber(s, i)
  ELSE IF s[i] = "[" THEN ArrayAt(s, SkipJSONSpace(s, i + 1))
  ELSE IF s[i] = "{" THEN ObjectAt(s, SkipJSONSpace(s, i + 1))
  ELSE Failed
\* the value that starts at position i, white space before it skipped
ParseValue(s, i) == ValueAt(s, SkipJSONSpace(s, i))
\* the element r has been read and j is the place of what follows it
ElementEnd(s, acc, r, j) ==
  IF j > Len(s) THEN Failed
  ELSE IF s[j] = "]" THEN Parsed([arr |-> Append(acc, r.val)], j + 1)
  ELSE IF s[j] = "," THEN ParseElements(s, j + 1, Append(acc, r.val))
  ELSE Failed
AfterElement(s, acc, r) ==
  IF r.ok THEN ElementEnd(s, acc, r, SkipJSONSpace(s, r.pos)) ELSE Failed
\* the elements of an array from position i on, acc being those before
ParseElements(s, i, acc) == AfterElement(s, acc, ParseValue(s, i))
\* the property k : r has been read and j is the place of what follows it
MemberEnd(s, acc, k, r, j) ==
  IF j > Len(s) THEN Failed
  ELSE IF s[j] = "}"
  THEN Parsed([obj |-> SetProperty(acc, k.val.str, r.val)], j + 1)
  ELSE IF s[j] = ","
  THEN ParseMembers(s, j + 1, SetProperty(acc, k.val.str, r.val))
  ELSE Failed
AfterMember(s, acc, k, r) ==
  IF r.ok THEN MemberEnd(s, acc, k, r, SkipJSONSpace(s, r.pos)) ELSE Failed
\* the name k has been read and c is the place of the colon
MemberColon(s, acc, k, c) ==
  IF c <= Len(s) /\ s[c] = ":" THEN AfterMember(s, acc, k, ParseValue(s, c + 1))
  ELSE Failed
AfterName(s, acc, k) ==
  IF k.ok THEN MemberColon(s, acc, k, SkipJSONSpace(s, k.pos)) ELSE Failed
MemberAt(s, i, acc) ==
  IF i <= Len(s) /\ s[i] = "\"" THEN AfterName(s, acc, ParseChars(s, i + 1, <<>>))
  ELSE Failed
\* the properties of an object from position i on, acc being those before
ParseMembers(s, i, acc) == MemberAt(s, SkipJSONSpace(s, i), acc)

\* JSON.parse(s): the value, or a SyntaxError is thrown; of null (getItem
\* found nothing) it gives null, as of the text "null"
WholeText(s, r) ==
  IF r.ok /\ SkipJSONSpace(s, r.pos) > Len(s)
  THEN [throws |-> FALSE, val |-> r.val]
  ELSE [throws |-> TRUE, val |-> [lit |-> "null"]]
JSONValue(s) ==
  IF s = null THEN [throws |-> FALSE, val |-> [lit |-> "null"]]
  ELSE WholeText(s, ParseValue(s, 1))

\* the values that || replaces: null, false, 0 and the empty string
Falsy(v) ==
  \/ "lit" \in DOMAIN v /\ v.lit \in {"null", "false"}
  \/ "num" \in DOMAIN v /\ v.num = 0
  \/ "str" \in DOMAIN v /\ v.str = <<>>
IsIntArray(v) ==
  "arr" \in DOMAIN v /\ \A i \in 1..Len(v.arr) : "num" \in DOMAIN v.arr[i]
\* a value as the history holds it
Held(v) == IF IsIntArray(v) THEN [i \in 1..Len(v.arr) |-> v.arr[i].num]
           ELSE [json |-> v]

\* line 113: JSON.parse(localStorage.getItem('gchq-history')) || []
OrEmpty(r) ==
  [throws |-> r.throws,
   isNull |-> ~r.throws /\ r.val = [lit |-> "null"],
   val |-> IF r.throws \/ Falsy(r.val) THEN <<>> ELSE Held(r.val)]
JSONParse(s) == OrEmpty(JSONValue(s))

\* Number.prototype.toString of a number that is no integer below 10^9
DecToStr(d) ==
  LET k == Len(d.digits)
      n == d.n
      e == n - 1
      sign == IF d.neg THEN <<"-">> ELSE <<>>
      body == IF k <= n /\ n <= 21 THEN d.digits \o Zeros(n - k)
              ELSE IF 0 < n /\ n <= 21
              THEN SubSeq(d.digits, 1, n) \o <<".">> \o SubSeq(d.digits, n + 1, k)
              ELSE IF -6 < n /\ n <= 0
              THEN <<"0", ".">> \o Zeros(-n) \o d.digits
              ELSE <<d.digits[1]>>
                     \o (IF k > 1 THEN <<".">> \o Tail(d.digits) ELSE <<>>)
                     \o <<"e">> \o (IF e < 0 THEN <<"-">> ELSE <<"+">>)
                     \o DecimalDigits(IF e < 0 THEN -e ELSE e)
  IN sign \o body

\* ------------------------------------------------- the numbers of the page
\* A number the page computes with is a double. It is held as an integer
\* while it is an integer below 10^9 in size and as the tagged value [dec] or
\* [inf] of the JSON section otherwise; parseInt and the additions of the
\* page give integers, so a tagged number of the page is 10^9 or more in
\* size.
IsTagged(v) == Head(ToString(v)) = "["
Untagged(v) == IF "num" \in DOMAIN v THEN v.num ELSE v
\* the double nearest to the integer of the decimal digits d, negated if neg
OfDigits(neg, d) ==
  Untagged(Canonical(neg, StripTrailingZeros(StripLeadingZeros(d)),
                     Len(StripLeadingZeros(d))))
\* the double nearest to the integer n
OfInteger(n) ==
  IF -Pow10(9) < n /\ n < Pow10(9) THEN n
  ELSE OfDigits(n < 0, DecimalDigits(IF n < 0 THEN -n ELSE n))
\* the size of a tagged finite number, as a natural number of any size: the
\* digits held are the shortest that read back as the double, its value is
\* m * 2^e
Whole(double) ==
  IF double.e >= 0 THEN BigTimesPow2(double.m, double.e)
  ELSE BigDiv(double.m, BigTimesPow2(<<1>>, -double.e)).q
Size(d) == Whole(ToDouble(d.digits, d.n))
\* a + k of lines 167 and 169 for a number a of the page and an integer k of
\* 0..100: the exact sum, rounded to a double
Plus(a, k) ==
  IF ~IsTagged(a) THEN OfInteger(a + k)
  ELSE IF "inf" \in DOMAIN a THEN a
  ELSE IF a.dec.neg
  THEN OfDigits(TRUE, DigitsOfBig(BigSub(Size(a.dec), BigOfDigits(DecimalDigits(k)))))
  ELSE OfDigits(FALSE, DigitsOfBig(BigAdd(Size(a.dec), BigOfDigits(DecimalDigits(k)))))
\* a tagged number is above zero
Positive(a) == IF "inf" \in DOMAIN a THEN ~a.inf ELSE ~a.dec.neg
\* a >= k, a > k and a === k for a number a of the page and an integer k
\* below 10^9 in size
AtLeast(a, k) == IF IsTagged(a) THEN Positive(a) ELSE a >= k
Above(a, k) == IF IsTagged(a) THEN Positive(a) ELSE a > k
Is(a, k) == ~IsTagged(a) /\ a = k
\* a === b for two numbers of the page
SameNumber(a, b) == IsTagged(a) = IsTagged(b) /\ a = b

\* String(v) for a number v of the page (Number::toString): an integer
\* below 10^9 in size is written with all its digits, a tagged number by
\* the rules of DecToStr
NumToStr(v) ==
  IF IsTagged(v)
  THEN IF "inf" \in DOMAIN v
       THEN (IF v.inf THEN <<"-">> ELSE <<>>)
              \o <<"I", "n", "f", "i", "n", "i", "t", "y">>
       ELSE DecToStr(v.dec)
  ELSE IF v < 0 THEN <<"-">> \o DecimalDigits(-v) ELSE DecimalDigits(v)

\* parseInt(s, 10): [nan |-> TRUE] when no number starts the string; the
\* value is the double nearest to the integer of the digits
ParseInt(s) ==
  LET t == SkipSpace(s)
      neg == t # <<>> /\ t[1] = "-"
      u == IF t # <<>> /\ t[1] \in {"-", "+"} THEN Tail(t) ELSE t
      d == DigitPrefix(u)
  IN IF d = <<>> THEN [nan |-> TRUE, val |-> 0]
     ELSE [nan |-> FALSE, val |-> OfDigits(neg, d)]

\* parseInt(localStorage.getItem(k), 10) || 0   (getItem gives null when absent)
ParseIntOr0(s) == LET r == ParseInt(s) IN IF r.nan THEN 0 ELSE r.val

\* the quoted string JSON.stringify writes
\* the escape of the code unit of number n
Escape(n) ==
  <<"\\", "u", HexDigits[(n \div 4096) + 1], HexDigits[((n \div 256) % 16) + 1],
    HexDigits[((n \div 16) % 16) + 1], HexDigits[(n % 16) + 1]>>
\* what is written for the code unit at position i of cs: a surrogate that
\* is no half of a pair is escaped
QuoteChar(cs, i) ==
  IF cs[i] \in {"\"", "\\"} THEN <<"\\", cs[i]>>
  ELSE IF LoneAt(cs, i) THEN Escape(SurrogateCode(cs[i]))
  ELSE IF ~IsControl(cs[i]) THEN <<cs[i]>>
  ELSE IF cs[i] = "U+0008" THEN <<"\\", "b">>
  ELSE IF cs[i] = "\t" THEN <<"\\", "t">>
  ELSE IF cs[i] = "\n" THEN <<"\\", "n">>
  ELSE IF cs[i] = "\f" THEN <<"\\", "f">>
  ELSE IF cs[i] = "\r" THEN <<"\\", "r">>
  ELSE Escape(ControlCode(cs[i]))
RECURSIVE QuoteFrom(_, _)
QuoteFrom(cs, i) ==
  IF i > Len(cs) THEN <<>> ELSE QuoteChar(cs, i) \o QuoteFrom(cs, i + 1)
QuoteChars(cs) == QuoteFrom(cs, 1)
Quote(cs) == <<"\"">> \o QuoteChars(cs) \o <<"\"">>

\* JSON.stringify of a tagged value
RECURSIVE Stringify(_)
RECURSIVE JoinValues(_)
RECURSIVE JoinMembers(_)
Stringify(v) ==
  IF "lit" \in DOMAIN v THEN Chars(v.lit)
  ELSE IF "num" \in DOMAIN v THEN NumToStr(v.num)
  ELSE IF "dec" \in DOMAIN v THEN DecToStr(v.dec)
  ELSE IF "inf" \in DOMAIN v THEN Chars("null")
  ELSE IF "str" \in DOMAIN v THEN Quote(v.str)
  ELSE IF "arr" \in DOMAIN v THEN <<"[">> \o JoinValues(v.arr) \o <<"]">>
  ELSE <<"{">> \o JoinMembers(v.obj) \o <<"}">>
JoinValues(vs) ==
  IF vs = <<>> THEN <<>>
  ELSE IF Len(vs) = 1 THEN Stringify(vs[1])
  ELSE Stringify(vs[1]) \o <<",">> \o JoinValues(Tail(vs))
JoinMembers(ms) ==
  IF ms = <<>> THEN <<>>
  ELSE Quote(ms[1].key) \o <<":">> \o Stringify(ms[1].val)
         \o (IF Len(ms) = 1 THEN <<>> ELSE <<",">> \o JoinMembers(Tail(ms)))

\* JSON.stringify of an array of integers
RECURSIVE JoinNums(_)
JoinNums(h) == IF h = <<>> THEN <<>>
               ELSE IF Len(h) = 1 THEN NumToStr(h[1])
               ELSE NumToStr(h[1]) \o <<",">> \o JoinNums(Tail(h))
\* JSON.stringify of a history
JSONStringify(h) ==
  IF IsPlain(h) THEN <<"[">> \o JoinNums(h) \o <<"]">> ELSE Stringify(h.json)

\* line 168: [...scoreHistory, pointsEarned] spreads an array or a string (one
\* element for each character, a surrogate pair being one character) and
\* throws a TypeError on any other value
IsArray(h) == IsPlain(h) \/ "arr" \in DOMAIN h.json
Iterable(h) == IsArray(h) \/ "str" \in DOMAIN h.json
StrOf(characters) == [i \in 1..Len(characters) |-> [str |-> characters[i]]]
Spread(v) == IF "arr" \in DOMAIN v THEN v.arr ELSE StrOf(CharsFrom(v.str, 1))
NewHistory(h, pointsEarned) ==
  IF IsPlain(h) THEN Append(h, pointsEarned)
  ELSE [json |-> [arr |-> Append(Spread(h.json), [num |-> pointsEarned])]]

\* a % b of JavaScript: the remainder takes the sign of the dividend
JsRem(a, b) == IF a >= 0 THEN a % b ELSE -((-a) % b)

\* --------------------------------------------- deterministic shuffle engine
\* a 32-bit word is <<high half, low half>>, each half in 0..65535
Half == 65536

RECURSIVE BitXor(_, _)
BitXor(a, b) == IF a = 0 THEN b ELSE IF b = 0 THEN a
                ELSE ((a + b) % 2) + 2 * BitXor(a \div 2, b \div 2)
RECURSIVE BitOr(_, _)
BitOr(a, b) == IF a = 0 THEN b ELSE IF b = 0 THEN a
               ELSE (IF a % 2 = 1 \/ b % 2 = 1 THEN 1 ELSE 0)
                    + 2 * BitOr(a \div 2, b \div 2)
RECURSIVE Pow2(_)
Pow2(k) == IF k = 0 THEN 1 ELSE 2 * Pow2(k - 1)

\* x ^ y, x | c, x >>> k (0 < k < 16), x + y modulo 2^32
WXor(x, y) == <<BitXor(x[1], y[1]), BitXor(x[2], y[2])>>
WOr(x, c) == <<x[1], BitOr(x[2], c)>>
WShr(x, k) == <<x[1] \div Pow2(k),
                (x[2] \div Pow2(k)) + (x[1] % Pow2(k)) * Pow2(16 - k)>>
WAdd(x, y) == LET lo == x[2] + y[2]
              IN <<(x[1] + y[1] + lo \div Half) % Half, lo % Half>>

\* the low 16 bits of a * b, for halves a and b
MulLow(a, b) == ((a % 256) * b + (((a \div 256) * b) % 256) * 256) % Half
\* Math.imul(x, y): the low 32 bits of the product
WMul(x, y) ==
  LET a0 == x[2] % 256
      a1 == x[2] \div 256
      b0 == y[2] % 256
      b1 == y[2] \div 256
      low == (a1 * b0 + a0 * b1) * 256 + a0 * b0
      carry == low \div Half + a1 * b1
      cross == MulLow(x[1], y[2]) + MulLow(x[2], y[1])
  IN <<(carry + cross) % Half, low % Half>>

\* the increment 0x6D2B79F5 of the generator
Increment == <<27947, 31221>>
\* seededRandom(seed): the seed after one call, and the word the call returns
\* before its division by 4294967296
NextSeed(seed) == WAdd(seed, Increment)
RandomWord(seed) ==
  LET t0 == NextSeed(seed)
      t1 == WMul(WXor(t0, WShr(t0, 15)), WOr(t0, 1))
      t2 == WXor(t1, WAdd(t1, WMul(WXor(t1, WShr(t1, 7)), WOr(t1, 61))))
  IN WXor(t2, WShr(t2, 14))

\* Math.floor(random() * m) for the word w the call returned
FloorScale(w, m) == (w[1] * m + (w[2] * m) \div Half) \div Half

\* the Fisher-Yates loop of getMasterPuzzleList, from index i down to 1
\* (ids is 1-based here: position i of the code is ids[i + 1])
\* a faulty exchange that copies ids[j] over ids[i] and leaves ids[j]
SwappedCopy(ids, i, j) == [ids EXCEPT ![i + 1] = ids[j + 1]]
\* line 19: [ids[i], ids[j]] = [ids[j], ids[i]]
Swapped(ids, i, j) == [ids EXCEPT ![i + 1] = ids[j + 1], ![j + 1] = ids[i + 1]]
RECURSIVE Shuffle(_, _, _)
Shuffle(ids, i, seed) ==
  IF i <= 0 THEN ids
  ELSE LET j == FloorScale(RandomWord(seed), i + 1)
           swapped == Swapped(ids, i, j)
       IN Shuffle(swapped, i - 1, NextSeed(seed))

\* the seed of getMasterPuzzleList
Seed == 42
GetMasterPuzzleList(ids) == Shuffle(ids, Len(ids) - 1, <<0, Seed>>)

\* ------------------------------------------------------------ puzzle pool
\* puzzles.json: the static pool (id, and answer or answerHash)
PoolSize == 7
\* line 83: new TextEncoder().encode(text) writes U+FFFD for every surrogate
\* that is no half of a pair; the characters stand for their UTF-8 bytes
Encode(text) == [i \in 1..Len(text) |-> IF LoneAt(text, i) THEN "U+FFFD" ELSE text[i]]
\* the digest of a text, as the hex string hashGuess returns: a rendering
\* that tells encoded texts apart and never equals the text "error"
Digest(text) == <<"#">> \o Encode(text)
Puzzle(id) ==
  IF id % 2 = 1
  THEN [id |-> id, hasHash |-> FALSE, answer |-> <<"k", "e", "y">>, answerHash |-> <<>>]
  ELSE [id |-> id, hasHash |-> TRUE, answer |-> <<>>, answerHash |-> Digest(<<"o", "k">>)]
puzzleIds == [i \in 1..PoolSize |-> i]
masterPuzzleList == GetMasterPuzzleList(puzzleIds)

\* -------------------------------------------------------------- the clock
\* the time zone of the device: "fixed" keeps one offset all year, "dst"
\* moves the clock one hour forward from DstStart to DstEnd (hours from the
\* epoch instant: 2024-03-10 02:00 and 2024-11-03 02:00 daylight time)
DstStart == 1658
DstEnd == 7369
InDst(zone, t) == zone = "dst" /\ t >= DstStart /\ t < DstEnd
\* the wall clock, in hours from local midnight of 2024-01-01
Wall(zone, t) == IF InDst(zone, t) THEN t + 1 ELSE t
LocalDay(zone, t) == Wall(zone, t) \div DayLen
\* today.setHours(0, 0, 0, 0); today.getTime(), relative to the epoch
LocalMidnight(zone, t) ==
  LET m == LocalDay(zone, t) * DayLen
  IN IF InDst(zone, m - 1) THEN m - 1 ELSE m
\* new Date().toDateString(): one string per local calendar date
DateString(zone, t) == <<"d", "a", "y">> \o NumToStr(LocalDay(zone, t))

\* getDayIndex()
GetDayIndex(zone, t) == (LocalMidnight(zone, t) - 0) \div DayLen

\* a faulty selector that reads past the end of the list instead of wrapping
TodaysPuzzlesNoWrap(dayIndex, list) ==
  [k \in 1..SetSize |->
     LET index == dayIndex * 5 + (k - 1)
     IN IF index >= 0 /\ index < Len(list) THEN list[index + 1] ELSE undefined]

\* getTodaysPuzzles(): slot i holds list[(dayIndex * 5 + i) % length], and an
\* index outside the list reads undefined
TodaysPuzzles(dayIndex, list) ==
  [k \in 1..SetSize |->
     LET index == JsRem(dayIndex * 5 + (k - 1), Len(list))
     IN IF index >= 0 /\ index < Len(list) THEN list[index + 1] ELSE undefined]
GetTodaysPuzzles(zone, t) == TodaysPuzzles(GetDayIndex(zone, t), masterPuzzleList)


\* ------------------------------------------------------------------ state
VARIABLES
  \* the React state of App
  gameState, puzzlesToday, score, scoreHistory, todaysPuzzles,
  guess, status, showHint, attempts,
  \* the page: "mounting" before the load effect has run, "ready" after it,
  \* "failed" when it threw
  page,
  \* localStorage: the four keys gchq-date, -puzzles-today, -score, -history
  store,
  \* the device: the clock, its time zone, and whether crypto.subtle can
  \* digest (it is undefined outside a secure context)
  now, zone, subtle,
  \* the handleSubmit invocations in flight, in the order their timers were set
  tasks,
  \* the last event, and what a session has seen of the active puzzle
  ev, hintEver, wrongVerified, award, submits,
  \* the inputs and the result of a pure function under check
  probe

vars == <<gameState, puzzlesToday, score, scoreHistory, todaysPuzzles,
          guess, status, showHint, attempts, page, store, now, zone, subtle,
          tasks, ev, hintEver, wrongVerified, award, submits, probe>>
memory == <<gameState, puzzlesToday, score, scoreHistory, todaysPuzzles,
            guess, status, showHint, attempts>>
ghosts == <<hintEver, wrongVerified, award>>
clock == <<now, zone, subtle, submits, probe>>

\* the texts the user types into the answer field
GuessInputs == {<<>>, <<"K", "e", "y", " ">>, <<"o", "k">>}

\* useState(...) of lines 93-104
InitialMemory ==
  /\ gameState = "landing"
  /\ puzzlesToday = 0
  /\ score = 0
  /\ scoreHistory = <<>>
  /\ todaysPuzzles = <<>>
  /\ guess = <<>>
  /\ status = "idle"
  /\ showHint = FALSE
  /\ attempts = 0

EmptyStore == [date |-> null, puzzles |-> null, score |-> null, history |-> null]

RECURSIVE Sum(_)
Sum(h) == IF h = <<>> THEN 0 ELSE h[1] + Sum(Tail(h))
\* the store as lines 117 and 170-172 leave it after the puzzles of history h
\* were completed on local day d
SessionStore(d, h) ==
  [date |-> <<"d", "a", "y">> \o NumToStr(d), puzzles |-> NumToStr(Len(h)),
   score |-> NumToStr(Sum(h)), history |-> JSONStringify(h)]

\* the state of the game and of the device other than the store
Fresh ==
  /\ InitialMemory
  /\ page = "mounting"
  /\ tasks = <<>>
  /\ ev = "open"
  /\ hintEver = FALSE
  /\ wrongVerified = 0
  /\ award = 0
  /\ submits = 0

\* the page is opened on 2024-01-01, on a device that never ran the game or
\* that completed four puzzles earlier that day
Init ==
  /\ Fresh
  /\ store \in {EmptyStore, SessionStore(0, <<100, 75, 50, 25>>)}
  /\ now = 0
  /\ zone = "fixed"
  /\ subtle \in BOOLEAN
  /\ probe = <<>>

\* ----------------------------------------------------------------- render
\* todaysPuzzles[puzzlesToday] of lines 158 and 300
CurrentPuzzleId ==
  IF ~IsTagged(puzzlesToday) /\ puzzlesToday >= 0 /\ puzzlesToday < Len(todaysPuzzles)
  THEN todaysPuzzles[puzzlesToday + 1] ELSE undefined
\* the puzzle screen is rendered: none of the returns of lines 210-304 is taken
PuzzleShown ==
  /\ page = "ready"
  /\ gameState = "playing"
  /\ CurrentPuzzleId # undefined
  /\ CurrentPuzzleId \in 1..PoolSize

\* ------------------------------------------------------------ load effect
\* a faulty comparison that takes every stored session for one of another day
DateAlwaysChanged(savedDate, todayStr) == TRUE
\* savedDate !== todayStr of line 115
DateChanged(savedDate, todayStr) == savedDate # todayStr

\* the effect of lines 107-130
LoadEffect ==
  /\ page = "mounting"
  /\ LET todayStr == DateString(zone, now)
         savedDate == store.date
         loadedPuzzles == GetTodaysPuzzles(zone, now)
         parsedPuzzles == ParseIntOr0(store.puzzles)
         parsedScore == ParseIntOr0(store.score)
         parsed == JSONParse(store.history)
         reset == DateChanged(savedDate, todayStr)
         savedPuzzlesToday == IF reset THEN 0 ELSE parsedPuzzles
         savedScore == IF reset THEN 0 ELSE parsedScore
         savedHistory == IF reset THEN <<>> ELSE parsed.val
     IN IF parsed.throws
        THEN /\ page' = "failed"
             /\ ev' = "loadThrew"
             /\ UNCHANGED <<memory, store>>
        ELSE /\ page' = "ready"
             /\ ev' = IF reset THEN "loadReset" ELSE "loadResume"
             /\ store' = IF reset
                         THEN [date |-> todayStr, puzzles |-> <<"0">>,
                               score |-> <<"0">>, history |-> JSONStringify(<<>>)]
                         ELSE store
             /\ todaysPuzzles' = loadedPuzzles
             /\ puzzlesToday' = savedPuzzlesToday
             /\ score' = savedScore
             /\ scoreHistory' = savedHistory
             /\ gameState' = IF AtLeast(savedPuzzlesToday, 5) THEN "done_for_day"
                             ELSE IF Above(savedPuzzlesToday, 0) THEN "playing"
                             ELSE gameState
             /\ UNCHANGED <<guess, status, showHint, attempts>>
  /\ UNCHANGED <<clock, tasks, ghosts>>

\* the page is reloaded: the script starts again with the state of useState
\* and without the timers and promises of the page before
Reload ==
  /\ page # "mounting"
  /\ gameState' = "landing"
  /\ puzzlesToday' = 0
  /\ score' = 0
  /\ scoreHistory' = <<>>
  /\ todaysPuzzles' = <<>>
  /\ guess' = <<>>
  /\ status' = "idle"
  /\ showHint' = FALSE
  /\ attempts' = 0
  /\ page' = "mounting"
  /\ tasks' = <<>>
  /\ ev' = "open"
  /\ hintEver' = FALSE
  /\ wrongVerified' = 0
  /\ award' = 0
  /\ probe' = <<>>
  /\ UNCHANGED <<store, now, zone, subtle, submits>>


\* ------------------------------------------------------------ verification
Upper == <<"A", "B", "C", "D", "E", "F", "G", "H", "I", "J", "K", "L", "M",
           "N", "O", "P", "Q", "R", "S", "T", "U", "V", "W", "X", "Y", "Z">>
Lower == <<"a", "b", "c", "d", "e", "f", "g", "h", "i", "j", "k", "l", "m",
           "n", "o", "p", "q", "r", "s", "t", "u", "v", "w", "x", "y", "z">>
\* the capitals outside ASCII up to U+FFFF that toLowerCase maps to one
\* character, and what it maps them to (the simple lowercase mappings of the
\* Unicode character database)
UpperWide ==
  <<"U+00C0", "U+00C1", "U+00C2", "U+00C3", "U+00C4", "U+00C5", "U+00C6",
    "U+00C7", "U+00C8", "U+00C9", "U+00CA", "U+00CB", "U+00CC", "U+00CD",
    "U+00CE", "U+00CF", "U+00D0", "U+00D1", "U+00D2", "U+00D3", "U+00D4",
    "U+00D5", "U+00D6", "U+00D8", "U+00D9", "U+00DA", "U+00DB", "U+00DC",
    "U+00DD", "U+00DE", "U+0100", "U+0102", "U+0104", "U+0106", "U+0108",
    "U+010A", "U+010C", "U+010E", "U+0110", "U+0112", "U+0114", "U+0116",
    "U+0118", "U+011A", "U+011C", "U+011E", "U+0120", "U+0122", "U+0124",
    "U+0126", "U+0128", "U+012A", "U+012C", "U+012E", "U+0132", "U+0134",
    "U+0136", "U+0139", "U+013B", "U+013D", "U+013F", "U+0141", "U+0143",
    "U+0145", "U+0147", "U+014A", "U+014C", "U+014E", "U+0150", "U+0152",
    "U+0154", "U+0156", "U+0158", "U+015A", "U+015C", "U+015E", "U+0160",
    "U+0162", "U+0164", "U+0166", "U+0168", "U+016A", "U+016C", "U+016E",
    "U+0170", "U+0172", "U+0174", "U+0176", "U+0178", "U+0179", "U+017B",
    "U+017D", "U+0181", "U+0182", "U+0184", "U+0186", "U+0187", "U+0189",
    "U+018A", "U+018B", "U+018E", "U+018F", "U+0190", "U+0191", "U+0193",
    "U+0194", "U+0196", "U+0197", "U+0198", "U+019C", "U+019D", "U+019F",
    "U+01A0", "U+01A2", "U+01A4", "U+01A6", "U+01A7", "U+01A9", "U+01AC",
    "U+01AE", "U+01AF", "U+01B1", "U+01B2", "U+01B3", "U+01B5", "U+01B7",
    "U+01B8", "U+01BC", "U+01C4", "U+01C5", "U+01C7", "U+01C8", "U+01CA",
    "U+01CB", "U+01CD", "U+01CF", "U+01D1", "U+01D3", "U+01D5", "U+01D7",
    "U+01D9", "U+01DB", "U+01DE", "U+01E0", "U+01E2", "U+01E4", "U+01E6",
    "U+01E8", "U+01EA", "U+01EC", "U+01EE", "U+01F1", "U+01F2", "U+01F4",
    "U+01F6", "U+01F7", "U+01F8", "U+01FA", "U+01FC", "U+01FE", "U+0200",
    "U+0202", "U+0204", "U+0206", "U+0208", "U+020A", "U+020C", "U+020E",
    "U+0210", "U+0212", "U+0214", "U+0216", "U+0218", "U+021A", "U+021C",
    "U+021E", "U+0220", "U+0222", "U+0224", "U+0226", "U+0228", "U+022A",
    "U+022C", "U+022E", "U+0230", "U+0232", "U+023A", "U+023B", "U+023D",
    "U+023E", "U+0241", "U+0243", "U+0244", "U+0245", "U+0246", "U+0248",
    "U+024A", "U+024C", "U+024E", "U+0370", "U+0372", "U+0376", "U+037F",
    "U+0386", "U+0388", "U+0389", "U+038A", "U+038C", "U+038E", "U+038F",
    "U+0391", "U+0392", "U+0393", "U+0394", "U+0395", "U+0396", "U+0397",
    "U+0398", "U+0399", "U+039A", "U+039B", "U+039C", "U+039D", "U+039E",
    "U+039F", "U+03A0", "U+03A1", "U+03A3", "U+03A4", "U+03A5", "U+03A6",
    "U+03A7", "U+03A8", "U+03A9", "U+03AA", "U+03AB", "U+03CF", "U+03D8",
    "U+03DA", "U+03DC", "U+03DE", "U+03E0", "U+03E2", "U+03E4", "U+03E6",
    "U+03E8", "U+03EA", "U+03EC", "U+03EE", "U+03F4", "U+03F7", "U+03F9",
    "U+03FA", "U+03FD", "U+03FE", "U+03FF", "U+0400", "U+0401", "U+0402",
    "U+0403", "U+0404", "U+0405", "U+0406", "U+0407", "U+0408", "U+0409",
    "U+040A", "U+040B", "U+040C", "U+040D", "U+040E", "U+040F", "U+0410",
    "U+0411", "U+0412", "U+0413", "U+0414", "U+0415", "U+0416", "U+0417",
    "U+0418", "U+0419", "U+041A", "U+041B", "U+041C", "U+041D", "U+041E",
    "U+041F", "U+0420", "U+0421", "U+0422", "U+0423", "U+0424", "U+0425",
    "U+0426", "U+0427", "U+0428", "U+0429", "U+042A", "U+042B", "U+042C",
    "U+042D", "U+042E", "U+042F", "U+0460", "U+0462", "U+0464", "U+0466",
    "U+0468", "U+046A", "U+046C", "U+046E", "U+0470", "U+0472", "U+0474",
    "U+0476", "U+0478", "U+047A", "U+047C", "U+047E", "U+0480", "U+048A",
    "U+048C", "U+048E", "U+0490", "U+0492", "U+0494", "U+0496", "U+0498",
    "U+049A", "U+049C", "U+049E", "U+04A0", "U+04A2", "U+04A4", "U+04A6",
    "U+04A8", "U+04AA", "U+04AC", "U+04AE", "U+04B0", "U+04B2", "U+04B4",
    "U+04B6", "U+04B8", "U+04BA", "U+04BC", "U+04BE", "U+04C0", "U+04C1",
    "U+04C3", "U+04C5", "U+04C7", "U+04C9", "U+04CB", "U+04CD", "U+04D0",
    "U+04D2", "U+04D4", "U+04D6", "U+04D8", "U+04DA", "U+04DC", "U+04DE",
    "U+04E0", "U+04E2", "U+04E4", "U+04E6", "U+04E8", "U+04EA", "U+04EC",
    "U+04EE", "U+04F0", "U+04F2", "U+04F4", "U+04F6", "U+04F8", "U+04FA",
    "U+04FC", "U+04FE", "U+0500", "U+0502", "U+0504", "U+0506", "U+0508",
    "U+050A", "U+050C", "U+050E", "U+0510", "U+0512", "U+0514", "U+0516",
    "U+0518", "U+051A", "U+051C", "U+051E", "U+0520", "U+0522", "U+0524",
    "U+0526", "U+0528", "U+052A", "U+052C", "U+052E", "U+0531", "U+0532",
    "U+0533", "U+0534", "U+0535", "U+0536", "U+0537", "U+0538", "U+0539",
    "U+053A", "U+053B", "U+053C", "U+053D", "U+053E", "U+053F", "U+0540",
    "U+0541", "U+0542", "U+0543", "U+0544", "U+0545", "U+0546", "U+0547",
    "U+0548", "U+0549", "U+054A", "U+054B", "U+054C", "U+054D", "U+054E",
    "U+054F", "U+0550", "U+0551", "U+0552", "U+0553", "U+0554", "U+0555",
    "U+0556", "U+10A0", "U+10A1", "U+10A2", "U+10A3", "U+10A4", "U+10A5",
    "U+10A6", "U+10A7", "U+10A8", "U+10A9", "U+10AA", "U+10AB", "U+10AC",
    "U+10AD", "U+10AE", "U+10AF", "U+10B0", "U+10B1", "U+10B2", "U+10B3",
    "U+10B4", "U+10B5", "U+10B6", "U+10B7", "U+10B8", "U+10B9", "U+10BA",
    "U+10BB", "U+10BC", "U+10BD", "U+10BE", "U+10BF", "U+10C0", "U+10C1",
    "U+10C2", "U+10C3", "U+10C4", "U+10C5", "U+10C7", "U+10CD", "U+13A0",
    "U+13A1", "U+13A2", "U+13A3", "U+13A4", "U+13A5", "U+13A6", "U+13A7",
    "U+13A8", "U+13A9", "U+13AA", "U+13AB", "U+13AC", "U+13AD", "U+13AE",
    "U+13AF", "U+13B0", "U+13B1", "U+13B2", "U+13B3", "U+13B4", "U+13B5",
    "U+13B6", "U+13B7", "U+13B8", "U+13B9", "U+13BA", "U+13BB", "U+13BC",
    "U+13BD", "U+13BE", "U+13BF", "U+13C0", "U+13C1", "U+13C2", "U+13C3",
    "U+13C4", "U+13C5", "U+13C6", "U+13C7", "U+13C8", "U+13C9", "U+13CA",
    "U+13CB", "U+13CC", "U+13CD", "U+13CE", "U+13CF", "U+13D0", "U+13D1",
    "U+13D2", "U+13D3", "U+13D4", "U+13D5", "U+13D6", "U+13D7", "U+13D8",
    "U+13D9", "U+13DA", "U+13DB", "U+13DC", "U+13DD", "U+13DE", "U+13DF",
    "U+13E0", "U+13E1", "U+13E2", "U+13E3", "U+13E4", "U+13E5", "U+13E6",
    "U+13E7", "U+13E8", "U+13E9", "U+13EA", "U+13EB", "U+13EC", "U+13ED",
    "U+13EE", "U+13EF", "U+13F0", "U+13F1", "U+13F2", "U+13F3", "U+13F4",
    "U+13F5", "U+1C89", "U+1C90", "U+1C91", "U+1C92", "U+1C93", "U+1C94",
    "U+1C95", "U+1C96", "U+1C97", "U+1C98", "U+1C99", "U+1C9A", "U+1C9B",
    "U+1C9C", "U+1C9D", "U+1C9E", "U+1C9F", "U+1CA0", "U+1CA1", "U+1CA2",
    "U+1CA3", "U+1CA4", "U+1CA5", "U+1CA6", "U+1CA7", "U+1CA8", "U+1CA9",
    "U+1CAA", "U+1CAB", "U+1CAC", "U+1CAD", "U+1CAE", "U+1CAF", "U+1CB0",
    "U+1CB1", "U+1CB2", "U+1CB3", "U+1CB4", "U+1CB5", "U+1CB6", "U+1CB7",
    "U+1CB8", "U+1CB9", "U+1CBA", "U+1CBD", "U+1CBE", "U+1CBF", "U+1E00",
    "U+1E02", "U+1E04", "U+1E06", "U+1E08", "U+1E0A", "U+1E0C", "U+1E0E",
    "U+1E10", "U+1E12", "U+1E14", "U+1E16", "U+1E18", "U+1E1A", "U+1E1C",
    "U+1E1E", "U+1E20", "U+1E22", "U+1E24", "U+1E26", "U+1E28", "U+1E2A",
    "U+1E2C", "U+1E2E", "U+1E30", "U+1E32", "U+1E34", "U+1E36", "U+1E38",
    "U+1E3A", "U+1E3C", "U+1E3E", "U+1E40", "U+1E42", "U+1E44", "U+1E46",
    "U+1E48", "U+1E4A", "U+1E4C", "U+1E4E", "U+1E50", "U+1E52", "U+1E54",
    "U+1E56", "U+1E58", "U+1E5A", "U+1E5C", "U+1E5E", "U+1E60", "U+1E62",
    "U+1E64", "U+1E66", "U+1E68", "U+1E6A", "U+1E6C", "U+1E6E", "U+1E70",
    "U+1E72", "U+1E74", "U+1E76", "U+1E78", "U+1E7A", "U+1E7C", "U+1E7E",
    "U+1E80", "U+1E82", "U+1E84", "U+1E86", "U+1E88", "U+1E8A", "U+1E8C",
    "U+1E8E", "U+1E90", "U+1E92", "U+1E94", "U+1E9E", "U+1EA0", "U+1EA2",
    "U+1EA4", "U+1EA6", "U+1EA8", "U+1EAA", "U+1EAC", "U+1EAE", "U+1EB0",
    "U+1EB2", "U+1EB4", "U+1EB6", "U+1EB8", "U+1EBA", "U+1EBC", "U+1EBE",
    "U+1EC0", "U+1EC2", "U+1EC4", "U+1EC6", "U+1EC8", "U+1ECA", "U+1ECC",
    "U+1ECE", "U+1ED0", "U+1ED2", "U+1ED4", "U+1ED6", "U+1ED8", "U+1EDA",
    "U+1EDC", "U+1EDE", "U+1EE0", "U+1EE2", "U+1EE4", "U+1EE6", "U+1EE8",
    "U+1EEA", "U+1EEC", "U+1EEE", "U+1EF0", "U+1EF2", "U+1EF4", "U+1EF6",
    "U+1EF8", "U+1EFA", "U+1EFC", "U+1EFE", "U+1F08", "U+1F09", "U+1F0A",
    "U+1F0B", "U+1F0C", "U+1F0D", "U+1F0E", "U+1F0F", "U+1F18", "U+1F19",
    "U+1F1A", "U+1F1B", "U+1F1C", "U+1F1D", "U+1F28", "U+1F29", "U+1F2A",
    "U+1F2B", "U+1F2C", "U+1F2D", "U+1F2E", "U+1F2F", "U+1F38", "U+1F39",
    "U+1F3A", "U+1F3B", "U+1F3C", "U+1F3D", "U+1F3E", "U+1F3F", "U+1F48",
    "U+1F49", "U+1F4A", "U+1F4B", "U+1F4C", "U+1F4D", "U+1F59", "U+1F5B",
    "U+1F5D", "U+1F5F", "U+1F68", "U+1F69", "U+1F6A", "U+1F6B", "U+1F6C",
    "U+1F6D", "U+1F6E", "U+1F6F", "U+1F88", "U+1F89", "U+1F8A", "U+1F8B",
    "U+1F8C", "U+1F8D", "U+1F8E", "U+1F8F", "U+1F98", "U+1F99", "U+1F9A",
    "U+1F9B", "U+1F9C", "U+1F9D", "U+1F9E", "U+1F9F", "U+1FA8", "U+1FA9",
    "U+1FAA", "U+1FAB", "U+1FAC", "U+1FAD", "U+1FAE", "U+1FAF", "U+1FB8",
    "U+1FB9", "U+1FBA", "U+1FBB", "U+1FBC", "U+1FC8", "U+1FC9", "U+1FCA",
    "U+1FCB", "U+1FCC", "U+1FD8", "U+1FD9", "U+1FDA", "U+1FDB", "U+1FE8",
    "U+1FE9", "U+1FEA", "U+1FEB", "U+1FEC", "U+1FF8", "U+1FF9", "U+1FFA",
    "U+1FFB", "U+1FFC", "U+2126", "U+212A", "U+212B", "U+2132", "U+2160",
    "U+2161", "U+2162", "U+2163", "U+2164", "U+2165", "U+2166", "U+2167",
    "U+2168", "U+2169", "U+216A", "U+216B", "U+216C", "U+216D", "U+216E",
    "U+216F", "U+2183", "U+24B6", "U+24B7", "U+24B8", "U+24B9", "U+24BA",
    "U+24BB", "U+24BC", "U+24BD", "U+24BE", "U+24BF", "U+24C0", "U+24C1",
    "U+24C2", "U+24C3", "U+24C4", "U+24C5", "U+24C6", "U+24C7", "U+24C8",
    "U+24C9", "U+24CA", "U+24CB", "U+24CC", "U+24CD", "U+24CE", "U+24CF",
    "U+2C00", "U+2C01", "U+2C02", "U+2C03", "U+2C04", "U+2C05", "U+2C06",
    "U+2C07", "U+2C08", "U+2C09", "U+2C0A", "U+2C0B", "U+2C0C", "U+2C0D",
    "U+2C0E", "U+2C0F", "U+2C10", "U+2C11", "U+2C12", "U+2C13", "U+2C14",
    "U+2C15", "U+2C16", "U+2C17", "U+2C18", "U+2C19", "U+2C1A", "U+2C1B",
    "U+2C1C", "U+2C1D", "U+2C1E", "U+2C1F", "U+2C20", "U+2C21", "U+2C22",
    "U+2C23", "U+2C24", "U+2C25", "U+2C26", "U+2C27", "U+2C28", "U+2C29",
    "U+2C2A", "U+2C2B", "U+2C2C", "U+2C2D", "U+2C2E", "U+2C2F", "U+2C60",
    "U+2C62", "U+2C63", "U+2C64", "U+2C67", "U+2C69", "U+2C6B", "U+2C6D",
    "U+2C6E", "U+2C6F", "U+2C70", "U+2C72", "U+2C75", "U+2C7E", "U+2C7F",
    "U+2C80", "U+2C82", "U+2C84", "U+2C86", "U+2C88", "U+2C8A", "U+2C8C",
    "U+2C8E", "U+2C90", "U+2C92", "U+2C94", "U+2C96", "U+2C98", "U+2C9A",
    "U+2C9C", "U+2C9E", "U+2CA0", "U+2CA2", "U+2CA4", "U+2CA6", "U+2CA8",
    "U+2CAA", "U+2CAC", "U+2CAE", "U+2CB0", "U+2CB2", "U+2CB4", "U+2CB6",
    "U+2CB8", "U+2CBA", "U+2CBC", "U+2CBE", "U+2CC0", "U+2CC2", "U+2CC4",
    "U+2CC6", "U+2CC8", "U+2CCA", "U+2CCC", "U+2CCE", "U+2CD0", "U+2CD2",
    "U+2CD4", "U+2CD6", "U+2CD8", "U+2CDA", "U+2CDC", "U+2CDE", "U+2CE0",
    "U+2CE2", "U+2CEB", "U+2CED", "U+2CF2", "U+A640", "U+A642", "U+A644",
    "U+A646", "U+A648", "U+A64A", "U+A64C", "U+A64E", "U+A650", "U+A652",
    "U+A654", "U+A656", "U+A658", "U+A65A", "U+A65C", "U+A65E", "U+A660",
    "U+A662", "U+A664", "U+A666", "U+A668", "U+A66A", "U+A66C", "U+A680",
    "U+A682", "U+A684", "U+A686", "U+A688", "U+A68A", "U+A68C", "U+A68E",
    "U+A690", "U+A692", "U+A694", "U+A696", "U+A698", "U+A69A", "U+A722",
    "U+A724", "U+A726", "U+A728", "U+A72A", "U+A72C", "U+A72E", "U+A732",
    "U+A734", "U+A736", "U+A738", "U+A73A", "U+A73C", "U+A73E", "U+A740",
    "U+A742", "U+A744", "U+A746", "U+A748", "U+A74A", "U+A74C", "U+A74E",
    "U+A750", "U+A752", "U+A754", "U+A756", "U+A758", "U+A75A", "U+A75C",
    "U+A75E", "U+A760", "U+A762", "U+A764", "U+A766", "U+A768", "U+A76A",
    "U+A76C", "U+A76E", "U+A779", "U+A77B", "U+A77D", "U+A77E", "U+A780",
    "U+A782", "U+A784", "U+A786", "U+A78B", "U+A78D", "U+A790", "U+A792",
    "U+A796", "U+A798", "U+A79A", "U+A79C", "U+A79E", "U+A7A0", "U+A7A2",
    "U+A7A4", "U+A7A6", "U+A7A8", "U+A7AA", "U+A7AB", "U+A7AC", "U+A7AD",
    "U+A7AE", "U+A7B0", "U+A7B1", "U+A7B2", "U+A7B3", "U+A7B4", "U+A7B6",
    "U+A7B8", "U+A7BA", "U+A7BC", "U+A7BE", "U+A7C0", "U+A7C2", "U+A7C4",
    "U+A7C5", "U+A7C6", "U+A7C7", "U+A7C9", "U+A7CB", "U+A7CC", "U+A7CE",
    "U+A7D0", "U+A7D2", "U+A7D4", "U+A7D6", "U+A7D8", "U+A7DA", "U+A7DC",
    "U+A7F5", "U+FF21", "U+FF22", "U+FF23", "U+FF24", "U+FF25", "U+FF26",
    "U+FF27", "U+FF28", "U+FF29", "U+FF2A", "U+FF2B", "U+FF2C", "U+FF2D",
    "U+FF2E", "U+FF2F", "U+FF30", "U+FF31", "U+FF32", "U+FF33", "U+FF34",
    "U+FF35", "U+FF36", "U+FF37", "U+FF38", "U+FF39", "U+FF3A">>
LowerWide ==
  <<"U+00E0", "U+00E1", "U+00E2", "U+00E3", "U+00E4", "U+00E5", "U+00E6",
    "U+00E7", "U+00E8", "U+00E9", "U+00EA", "U+00EB", "U+00EC", "U+00ED",
    "U+00EE", "U+00EF", "U+00F0", "U+00F1", "U+00F2", "U+00F3", "U+00F4",
    "U+00F5", "U+00F6", "U+00F8", "U+00F9", "U+00FA", "U+00FB", "U+00FC",
    "U+00FD", "U+00FE", "U+0101", "U+0103", "U+0105", "U+0107", "U+0109",
    "U+010B", "U+010D", "U+010F", "U+0111", "U+0113", "U+0115", "U+0117",
    "U+0119", "U+011B", "U+011D", "U+011F", "U+0121", "U+0123", "U+0125",
    "U+0127", "U+0129", "U+012B", "U+012D", "U+012F", "U+0133", "U+0135",
    "U+0137", "U+013A", "U+013C", "U+013E", "U+0140", "U+0142", "U+0144",
    "U+0146", "U+0148", "U+014B", "U+014D", "U+014F", "U+0151", "U+0153",
    "U+0155", "U+0157", "U+0159", "U+015B", "U+015D", "U+015F", "U+0161",
    "U+0163", "U+0165", "U+0167", "U+0169", "U+016B", "U+016D", "U+016F",
    "U+0171", "U+0173", "U+0175", "U+0177", "U+00FF", "U+017A", "U+017C",
    "U+017E", "U+0253", "U+0183", "U+0185", "U+0254", "U+0188", "U+0256",
    "U+0257", "U+018C", "U+01DD", "U+0259", "U+025B", "U+0192", "U+0260",
    "U+0263", "U+0269", "U+0268", "U+0199", "U+026F", "U+0272", "U+0275",
    "U+01A1", "U+01A3", "U+01A5", "U+0280", "U+01A8", "U+0283", "U+01AD",
    "U+0288", "U+01B0", "U+028A", "U+028B", "U+01B4", "U+01B6", "U+0292",
    "U+01B9", "U+01BD", "U+01C6", "U+01C6", "U+01C9", "U+01C9", "U+01CC",
    "U+01CC", "U+01CE", "U+01D0", "U+01D2", "U+01D4", "U+01D6", "U+01D8",
    "U+01DA", "U+01DC", "U+01DF", "U+01E1", "U+01E3", "U+01E5", "U+01E7",
    "U+01E9", "U+01EB", "U+01ED", "U+01EF", "U+01F3", "U+01F3", "U+01F5",
    "U+0195", "U+01BF", "U+01F9", "U+01FB", "U+01FD", "U+01FF", "U+0201",
    "U+0203", "U+0205", "U+0207", "U+0209", "U+020B", "U+020D", "U+020F",
    "U+0211", "U+0213", "U+0215", "U+0217", "U+0219", "U+021B", "U+021D",
    "U+021F", "U+019E", "U+0223", "U+0225", "U+0227", "U+0229", "U+022B",
    "U+022D", "U+022F", "U+0231", "U+0233", "U+2C65", "U+023C", "U+019A",
    "U+2C66", "U+0242", "U+0180", "U+0289", "U+028C", "U+0247", "U+0249",
    "U+024B", "U+024D", "U+024F", "U+0371", "U+0373", "U+0377", "U+03F3",
    "U+03AC", "U+03AD", "U+03AE", "U+03AF", "U+03CC", "U+03CD", "U+03CE",
    "U+03B1", "U+03B2", "U+03B3", "U+03B4", "U+03B5", "U+03B6", "U+03B7",
    "U+03B8", "U+03B9", "U+03BA", "U+03BB", "U+03BC", "U+03BD", "U+03BE",
    "U+03BF", "U+03C0", "U+03C1", "U+03C3", "U+03C4", "U+03C5", "U+03C6",
    "U+03C7", "U+03C8", "U+03C9", "U+03CA", "U+03CB", "U+03D7", "U+03D9",
    "U+03DB", "U+03DD", "U+03DF", "U+03E1", "U+03E3", "U+03E5", "U+03E7",
    "U+03E9", "U+03EB", "U+03ED", "U+03EF", "U+03B8", "U+03F8", "U+03F2",
    "U+03FB", "U+037B", "U+037C", "U+037D", "U+0450", "U+0451", "U+0452",
    "U+0453", "U+0454", "U+0455", "U+0456", "U+0457", "U+0458", "U+0459",
    "U+045A", "U+045B", "U+045C", "U+045D", "U+045E", "U+045F", "U+0430",
    "U+0431", "U+0432", "U+0433", "U+0434", "U+0435", "U+0436", "U+0437",
    "U+0438", "U+0439", "U+043A", "U+043B", "U+043C", "U+043D", "U+043E",
    "U+043F", "U+0440", "U+0441", "U+0442", "U+0443", "U+0444", "U+0445",
    "U+0446", "U+0447", "U+0448", "U+0449", "U+044A", "U+044B", "U+044C",
    "U+044D", "U+044E", "U+044F", "U+0461", "U+0463", "U+0465", "U+0467",
    "U+0469", "U+046B", "U+046D", "U+046F", "U+0471", "U+0473", "U+0475",
    "U+0477", "U+0479", "U+047B", "U+047D", "U+047F", "U+0481", "U+048B",
    "U+048D", "U+048F", "U+0491", "U+0493", "U+0495", "U+0497", "U+0499",
    "U+049B", "U+049D", "U+049F", "U+04A1", "U+04A3", "U+04A5", "U+04A7",
    "U+04A9", "U+04AB", "U+04AD", "U+04AF", "U+04B1", "U+04B3", "U+04B5",
    "U+04B7", "U+04B9", "U+04BB", "U+04BD", "U+04BF", "U+04CF", "U+04C2",
    "U+04C4", "U+04C6", "U+04C8", "U+04CA", "U+04CC", "U+04CE", "U+04D1",
    "U+04D3", "U+04D5", "U+04D7", "U+04D9", "U+04DB", "U+04DD", "U+04DF",
    "U+04E1", "U+04E3", "U+04E5", "U+04E7", "U+04E9", "U+04EB", "U+04ED",
    "U+04EF", "U+04F1", "U+04F3", "U+04F5", "U+04F7", "U+04F9", "U+04FB",
    "U+04FD", "U+04FF", "U+0501", "U+0503", "U+0505", "U+0507", "U+0509",
    "U+050B", "U+050D", "U+050F", "U+0511", "U+0513", "U+0515", "U+0517",
    "U+0519", "U+051B", "U+051D", "U+051F", "U+0521", "U+0523", "U+0525",
    "U+0527", "U+0529", "U+052B", "U+052D", "U+052F", "U+0561", "U+0562",
    "U+0563", "U+0564", "U+0565", "U+0566", "U+0567", "U+0568", "U+0569",
    "U+056A", "U+056B", "U+056C", "U+056D", "U+056E", "U+056F", "U+0570",
    "U+0571", "U+0572", "U+0573", "U+0574", "U+0575", "U+0576", "U+0577",
    "U+0578", "U+0579", "U+057A", "U+057B", "U+057C", "U+057D", "U+057E",
    "U+057F", "U+0580", "U+0581", "U+0582", "U+0583", "U+0584", "U+0585",
    "U+0586", "U+2D00", "U+2D01", "U+2D02", "U+2D03", "U+2D04", "U+2D05",
    "U+2D06", "U+2D07", "U+2D08", "U+2D09", "U+2D0A", "U+2D0B", "U+2D0C",
    "U+2D0D", "U+2D0E", "U+2D0F", "U+2D10", "U+2D11", "U+2D12", "U+2D13",
    "U+2D14", "U+2D15", "U+2D16", "U+2D17", "U+2D18", "U+2D19", "U+2D1A",
    "U+2D1B", "U+2D1C", "U+2D1D", "U+2D1E", "U+2D1F", "U+2D20", "U+2D21",
    "U+2D22", "U+2D23", "U+2D24", "U+2D25", "U+2D27", "U+2D2D", "U+AB70",
    "U+AB71", "U+AB72", "U+AB73", "U+AB74", "U+AB75", "U+AB76", "U+AB77",
    "U+AB78", "U+AB79", "U+AB7A", "U+AB7B", "U+AB7C", "U+AB7D", "U+AB7E",
    "U+AB7F", "U+AB80", "U+AB81", "U+AB82", "U+AB83", "U+AB84", "U+AB85",
    "U+AB86", "U+AB87", "U+AB88", "U+AB89", "U+AB8A", "U+AB8B", "U+AB8C",
    "U+AB8D", "U+AB8E", "U+AB8F", "U+AB90", "U+AB91", "U+AB92", "U+AB93",
    "U+AB94", "U+AB95", "U+AB96", "U+AB97", "U+AB98", "U+AB99", "U+AB9A",
    "U+AB9B", "U+AB9C", "U+AB9D", "U+AB9E", "U+AB9F", "U+ABA0", "U+ABA1",
    "U+ABA2", "U+ABA3", "U+ABA4", "U+ABA5", "U+ABA6", "U+ABA7", "U+ABA8",
    "U+ABA9", "U+ABAA", "U+ABAB", "U+ABAC", "U+ABAD", "U+ABAE", "U+ABAF",
    "U+ABB0", "U+ABB1", "U+ABB2", "U+ABB3", "U+ABB4", "U+ABB5", "U+ABB6",
    "U+ABB7", "U+ABB8", "U+ABB9", "U+ABBA", "U+ABBB", "U+ABBC", "U+ABBD",
    "U+ABBE", "U+ABBF", "U+13F8", "U+13F9", "U+13FA", "U+13FB", "U+13FC",
    "U+13FD", "U+1C8A", "U+10D0", "U+10D1", "U+10D2", "U+10D3", "U+10D4",
    "U+10D5", "U+10D6", "U+10D7", "U+10D8", "U+10D9", "U+10DA", "U+10DB",
    "U+10DC", "U+10DD", "U+10DE", "U+10DF", "U+10E0", "U+10E1", "U+10E2",
    "U+10E3", "U+10E4", "U+10E5", "U+10E6", "U+10E7", "U+10E8", "U+10E9",
    "U+10EA", "U+10EB", "U+10EC", "U+10ED", "U+10EE", "U+10EF", "U+10F0",
    "U+10F1", "U+10F2", "U+10F3", "U+10F4", "U+10F5", "U+10F6", "U+10F7",
    "U+10F8", "U+10F9", "U+10FA", "U+10FD", "U+10FE", "U+10FF", "U+1E01",
    "U+1E03", "U+1E05", "U+1E07", "U+1E09", "U+1E0B", "U+1E0D", "U+1E0F",
    "U+1E11", "U+1E13", "U+1E15", "U+1E17", "U+1E19", "U+1E1B", "U+1E1D",
    "U+1E1F", "U+1E21", "U+1E23", "U+1E25", "U+1E27", "U+1E29", "U+1E2B",
    "U+1E2D", "U+1E2F", "U+1E31", "U+1E33", "U+1E35", "U+1E37", "U+1E39",
    "U+1E3B", "U+1E3D", "U+1E3F", "U+1E41", "U+1E43", "U+1E45", "U+1E47",
    "U+1E49", "U+1E4B", "U+1E4D", "U+1E4F", "U+1E51", "U+1E53", "U+1E55",
    "U+1E57", "U+1E59", "U+1E5B", "U+1E5D", "U+1E5F", "U+1E61", "U+1E63",
    "U+1E65", "U+1E67", "U+1E69", "U+1E6B", "U+1E6D", "U+1E6F", "U+1E71",
    "U+1E73", "U+1E75", "U+1E77", "U+1E79", "U+1E7B", "U+1E7D", "U+1E7F",
    "U+1E81", "U+1E83", "U+1E85", "U+1E87", "U+1E89", "U+1E8B", "U+1E8D",
    "U+1E8F", "U+1E91", "U+1E93", "U+1E95", "U+00DF", "U+1EA1", "U+1EA3",
    "U+1EA5", "U+1EA7", "U+1EA9", "U+1EAB", "U+1EAD", "U+1EAF", "U+1EB1",
    "U+1EB3", "U+1EB5", "U+1EB7", "U+1EB9", "U+1EBB", "U+1EBD", "U+1EBF",
    "U+1EC1", "U+1EC3", "U+1EC5", "U+1EC7", "U+1EC9", "U+1ECB", "U+1ECD",
    "U+1ECF", "U+1ED1", "U+1ED3", "U+1ED5", "U+1ED7", "U+1ED9", "U+1EDB",
    "U+1EDD", "U+1EDF", "U+1EE1", "U+1EE3", "U+1EE5", "U+1EE7", "U+1EE9",
    "U+1EEB", "U+1EED", "U+1EEF", "U+1EF1", "U+1EF3", "U+1EF5", "U+1EF7",
    "U+1EF9", "U+1EFB", "U+1EFD", "U+1EFF", "U+1F00", "U+1F01", "U+1F02",
    "U+1F03", "U+1F04", "U+1F05", "U+1F06", "U+1F07", "U+1F10", "U+1F11",
    "U+1F12", "U+1F13", "U+1F14", "U+1F15", "U+1F20", "U+1F21", "U+1F22",
    "U+1F23", "U+1F24", "U+1F25", "U+1F26", "U+1F27", "U+1F30", "U+1F31",
    "U+1F32", "U+1F33", "U+1F34", "U+1F35", "U+1F36", "U+1F37", "U+1F40",
    "U+1F41", "U+1F42", "U+1F43", "U+1F44", "U+1F45", "U+1F51", "U+1F53",
    "U+1F55", "U+1F57", "U+1F60", "U+1F61", "U+1F62", "U+1F63", "U+1F64",
    "U+1F65", "U+1F66", "U+1F67", "U+1F80", "U+1F81", "U+1F82", "U+1F83",
    "U+1F84", "U+1F85", "U+1F86", "U+1F87", "U+1F90", "U+1F91", "U+1F92",
    "U+1F93", "U+1F94", "U+1F95", "U+1F96", "U+1F97", "U+1FA0", "U+1FA1",
    "U+1FA2", "U+1FA3", "U+1FA4", "U+1FA5", "U+1FA6", "U+1FA7", "U+1FB0",
    "U+1FB1", "U+1F70", "U+1F71", "U+1FB3", "U+1F72", "U+1F73", "U+1F74",
    "U+1F75", "U+1FC3", "U+1FD0", "U+1FD1", "U+1F76", "U+1F77", "U+1FE0",
    "U+1FE1", "U+1F7A", "U+1F7B", "U+1FE5", "U+1F78", "U+1F79", "U+1F7C",
    "U+1F7D", "U+1FF3", "U+03C9", "k", "U+00E5", "U+214E", "U+2170", "U+2171",
    "U+2172", "U+2173", "U+2174", "U+2175", "U+2176", "U+2177", "U+2178",
    "U+2179", "U+217A", "U+217B", "U+217C", "U+217D", "U+217E", "U+217F",
    "U+2184", "U+24D0", "U+24D1", "U+24D2", "U+24D3", "U+24D4", "U+24D5",
    "U+24D6", "U+24D7", "U+24D8", "U+24D9", "U+24DA", "U+24DB", "U+24DC",
    "U+24DD", "U+24DE", "U+24DF", "U+24E0", "U+24E1", "U+24E2", "U+24E3",
    "U+24E4", "U+24E5", "U+24E6", "U+24E7", "U+24E8", "U+24E9", "U+2C30",
    "U+2C31", "U+2C32", "U+2C33", "U+2C34", "U+2C35", "U+2C36", "U+2C37",
    "U+2C38", "U+2C39", "U+2C3A", "U+2C3B", "U+2C3C", "U+2C3D", "U+2C3E",
    "U+2C3F", "U+2C40", "U+2C41", "U+2C42", "U+2C43", "U+2C44", "U+2C45",
    "U+2C46", "U+2C47", "U+2C48", "U+2C49", "U+2C4A", "U+2C4B", "U+2C4C",
    "U+2C4D", "U+2C4E", "U+2C4F", "U+2C50", "U+2C51", "U+2C52", "U+2C53",
    "U+2C54", "U+2C55", "U+2C56", "U+2C57", "U+2C58", "U+2C59", "U+2C5A",
    "U+2C5B", "U+2C5C", "U+2C5D", "U+2C5E", "U+2C5F", "U+2C61", "U+026B",
    "U+1D7D", "U+027D", "U+2C68", "U+2C6A", "U+2C6C", "U+0251", "U+0271",
    "U+0250", "U+0252", "U+2C73", "U+2C76", "U+023F", "U+0240", "U+2C81",
    "U+2C83", "U+2C85", "U+2C87", "U+2C89", "U+2C8B", "U+2C8D", "U+2C8F",
    "U+2C91", "U+2C93", "U+2C95", "U+2C97", "U+2C99", "U+2C9B", "U+2C9D",
    "U+2C9F", "U+2CA1", "U+2CA3", "U+2CA5", "U+2CA7", "U+2CA9", "U+2CAB",
    "U+2CAD", "U+2CAF", "U+2CB1", "U+2CB3", "U+2CB5", "U+2CB7", "U+2CB9",
    "U+2CBB", "U+2CBD", "U+2CBF", "U+2CC1", "U+2CC3", "U+2CC5", "U+2CC7",
    "U+2CC9", "U+2CCB", "U+2CCD", "U+2CCF", "U+2CD1", "U+2CD3", "U+2CD5",
    "U+2CD7", "U+2CD9", "U+2CDB", "U+2CDD", "U+2CDF", "U+2CE1", "U+2CE3",
    "U+2CEC", "U+2CEE", "U+2CF3", "U+A641", "U+A643", "U+A645", "U+A647",
    "U+A649", "U+A64B", "U+A64D", "U+A64F", "U+A651", "U+A653", "U+A655",
    "U+A657", "U+A659", "U+A65B", "U+A65D", "U+A65F", "U+A661", "U+A663",
    "U+A665", "U+A667", "U+A669", "U+A66B", "U+A66D", "U+A681", "U+A683",
    "U+A685", "U+A687", "U+A689", "U+A68B", "U+A68D", "U+A68F", "U+A691",
    "U+A693", "U+A695", "U+A697", "U+A699", "U+A69B", "U+A723", "U+A725",
    "U+A727", "U+A729", "U+A72B", "U+A72D", "U+A72F", "U+A733", "U+A735",
    "U+A737", "U+A739", "U+A73B", "U+A73D", "U+A73F", "U+A741", "U+A743",
    "U+A745", "U+A747", "U+A749", "U+A74B", "U+A74D", "U+A74F", "U+A751",
    "U+A753", "U+A755", "U+A757", "U+A759", "U+A75B", "U+A75D", "U+A75F",
    "U+A761", "U+A763", "U+A765", "U+A767", "U+A769", "U+A76B", "U+A76D",
    "U+A76F", "U+A77A", "U+A77C", "U+1D79", "U+A77F", "U+A781", "U+A783",
    "U+A785", "U+A787", "U+A78C", "U+0265", "U+A791", "U+A793", "U+A797",
    "U+A799", "U+A79B", "U+A79D", "U+A79F", "U+A7A1", "U+A7A3", "U+A7A5",
    "U+A7A7", "U+A7A9", "U+0266", "U+025C", "U+0261", "U+026C", "U+026A",
    "U+029E", "U+0287", "U+029D", "U+AB53", "U+A7B5", "U+A7B7", "U+A7B9",
    "U+A7BB", "U+A7BD", "U+A7BF", "U+A7C1", "U+A7C3", "U+A794", "U+0282",
    "U+1D8E", "U+A7C8", "U+A7CA", "U+0264", "U+A7CD", "U+A7CF", "U+A7D1",
    "U+A7D3", "U+A7D5", "U+A7D7", "U+A7D9", "U+A7DB", "U+019B", "U+A7F6",
    "U+FF41", "U+FF42", "U+FF43", "U+FF44", "U+FF45", "U+FF46", "U+FF47",
    "U+FF48", "U+FF49", "U+FF4A", "U+FF4B", "U+FF4C", "U+FF4D", "U+FF4E",
    "U+FF4F", "U+FF50", "U+FF51", "U+FF52", "U+FF53", "U+FF54", "U+FF55",
    "U+FF56", "U+FF57", "U+FF58", "U+FF59", "U+FF5A">>
\* the capitals beyond U+FFFF, in runs: the first and the last code point of
\* a run and the distance to the small letters
AstralCapitals ==
  {<<66560, 66599, 40>>, <<66736, 66771, 40>>, <<66928, 66938, 39>>,
   <<66940, 66954, 39>>, <<66956, 66962, 39>>, <<66964, 66965, 39>>,
   <<68736, 68786, 64>>, <<68944, 68965, 32>>, <<71840, 71871, 32>>,
   <<93760, 93791, 32>>, <<93856, 93880, 27>>, <<125184, 125217, 34>>}
AstralLower ==
  UNION {{<<CodePoint(n), CodePoint(n + r[3])>> : n \in r[1]..r[2]} : r \in AstralCapitals}

\* toLowerCase of one code unit out of context: a text, since U+0130 (capital
\* I with dot above) becomes "i" followed by the combining dot U+0307
ToLowerChar(c) ==
  IF \E i \in 1..Len(Upper) : Upper[i] = c
  THEN <<Lower[CHOOSE i \in 1..Len(Upper) : Upper[i] = c]>>
  ELSE IF c = "U+0130" THEN <<"i", "U+0307">>
  ELSE IF \E i \in 1..Len(UpperWide) : UpperWide[i] = c
  THEN <<LowerWide[CHOOSE i \in 1..Len(UpperWide) : UpperWide[i] = c]>>
  ELSE <<c>>
\* toLowerCase of a surrogate pair
ToLowerPair(p) ==
  IF \E m \in AstralLower : m[1] = p
  THEN (CHOOSE m \in AstralLower : m[1] = p)[2]
  ELSE p
\* toLowerCase of one character (a code unit or a surrogate pair)
Lowered(ch) == IF Len(ch) = 2 THEN ToLowerPair(ch) ELSE ToLowerChar(ch[1])

\* the one mapping of toLowerCase that reads the context: capital sigma
\* U+03A3 becomes the final sigma U+03C2 when a cased letter comes before it
\* and none after it, characters that are ignored for case being skipped.
\* The characters ignored for case (property Case_Ignorable) and the cased
\* letters that are not ignored (property Cased), in runs of code points: the
\* Unicode character database of edition 15.0 with the letters and marks
\* that editions 16 and 17 added and without those they took out.
IgnorableRanges ==
  {<<39, 39>>, <<46, 46>>, <<58, 58>>, <<94, 94>>, <<96, 96>>,
   <<168, 168>>, <<173, 173>>, <<175, 175>>, <<180, 180>>, <<183, 184>>,
   <<688, 879>>, <<884, 885>>, <<890, 890>>, <<900, 901>>, <<903, 903>>,
   <<1155, 1161>>, <<1369, 1369>>, <<1375, 1375>>, <<1425, 1469>>,
   <<1471, 1471>>, <<1473, 1474>>, <<1476, 1477>>, <<1479, 1479>>,
   <<1524, 1524>>, <<1536, 1541>>, <<1552, 1562>>, <<1564, 1564>>,
   <<1600, 1600>>, <<1611, 1631>>, <<1648, 1648>>, <<1750, 1757>>,
   <<1759, 1768>>, <<1770, 1773>>, <<1807, 1807>>, <<1809, 1809>>,
   <<1840, 1866>>, <<1958, 1968>>, <<2027, 2037>>, <<2042, 2042>>,
   <<2045, 2045>>, <<2070, 2093>>, <<2137, 2139>>, <<2184, 2184>>,
   <<2192, 2193>>, <<2199, 2207>>, <<2249, 2306>>, <<2362, 2362>>,
   <<2364, 2364>>, <<2369, 2376>>, <<2381, 2381>>, <<2385, 2391>>,
   <<2402, 2403>>, <<2417, 2417>>, <<2433, 2433>>, <<2492, 2492>>,
   <<2497, 2500>>, <<2509, 2509>>, <<2530, 2531>>, <<2558, 2558>>,
   <<2561, 2562>>, <<2620, 2620>>, <<2625, 2626>>, <<2631, 2632>>,
   <<2635, 2637>>, <<2641, 2641>>, <<2672, 2673>>, <<2677, 2677>>,
   <<2689, 2690>>, <<2748, 2748>>, <<2753, 2757>>, <<2759, 2760>>,
   <<2765, 2765>>, <<2786, 2787>>, <<2810, 2815>>, <<2817, 2817>>,
   <<2876, 2876>>, <<2879, 2879>>, <<2881, 2884>>, <<2893, 2893>>,
   <<2901, 2902>>, <<2914, 2915>>, <<2946, 2946>>, <<3008, 3008>>,
   <<3021, 3021>>, <<3072, 3072>>, <<3076, 3076>>, <<3132, 3132>>,
   <<3134, 3136>>, <<3142, 3144>>, <<3146, 3149>>, <<3157, 3158>>,
   <<3170, 3171>>, <<3201, 3201>>, <<3260, 3260>>, <<3263, 3263>>,
   <<3270, 3270>>, <<3276, 3277>>, <<3298, 3299>>, <<3328, 3329>>,
   <<3387, 3388>>, <<3393, 3396>>, <<3405, 3405>>, <<3426, 3427>>,
   <<3457, 3457>>, <<3530, 3530>>, <<3538, 3540>>, <<3542, 3542>>,
   <<3633, 3633>>, <<3636, 3642>>, <<3654, 3662>>, <<3761, 3761>>,
   <<3764, 3772>>, <<3782, 3782>>, <<3784, 3790>>, <<3864, 3865>>,
   <<3893, 3893>>, <<3895, 3895>>, <<3897, 3897>>, <<3953, 3966>>,
   <<3968, 3972>>, <<3974, 3975>>, <<3981, 3991>>, <<3993, 4028>>,
   <<4038, 4038>>, <<4141, 4144>>, <<4146, 4151>>, <<4153, 4154>>,
   <<4157, 4158>>, <<4184, 4185>>, <<4190, 4192>>, <<4209, 4212>>,
   <<4226, 4226>>, <<4229, 4230>>, <<4237, 4237>>, <<4253, 4253>>,
   <<4348, 4348>>, <<4957, 4959>>, <<5906, 5908>>, <<5938, 5939>>,
   <<5970, 5971>>, <<6002, 6003>>, <<6068, 6069>>, <<6071, 6077>>,
   <<6086, 6086>>, <<6089, 6099>>, <<6103, 6103>>, <<6109, 6109>>,
   <<6155, 6159>>, <<6211, 6211>>, <<6277, 6278>>, <<6313, 6313>>,
   <<6432, 6434>>, <<6439, 6440>>, <<6450, 6450>>, <<6457, 6459>>,
   <<6679, 6680>>, <<6683, 6683>>, <<6742, 6742>>, <<6744, 6750>>,
   <<6752, 6752>>, <<6754, 6754>>, <<6757, 6764>>, <<6771, 6780>>,
   <<6783, 6783>>, <<6823, 6823>>, <<6832, 6877>>, <<6880, 6891>>,
   <<6912, 6915>>, <<6964, 6964>>, <<6966, 6970>>, <<6972, 6972>>,
   <<6978, 6978>>, <<7019, 7027>>, <<7040, 7041>>, <<7074, 7077>>,
   <<7080, 7081>>, <<7083, 7085>>, <<7142, 7142>>, <<7144, 7145>>,
   <<7149, 7149>>, <<7151, 7153>>, <<7212, 7219>>, <<7222, 7223>>,
   <<7288, 7293>>, <<7376, 7378>>, <<7380, 7392>>, <<7394, 7400>>,
   <<7405, 7405>>, <<7412, 7412>>, <<7416, 7417>>, <<7468, 7530>>,
   <<7544, 7544>>, <<7579, 7679>>, <<8125, 8125>>, <<8127, 8129>>,
   <<8141, 8143>>, <<8157, 8159>>, <<8173, 8175>>, <<8189, 8190>>,
   <<8203, 8207>>, <<8216, 8217>>, <<8228, 8228>>, <<8231, 8231>>,
   <<8234, 8238>>, <<8288, 8292>>, <<8294, 8303>>, <<8305, 8305>>,
   <<8319, 8319>>, <<8336, 8348>>, <<8400, 8432>>, <<11388, 11389>>,
   <<11503, 11505>>, <<11631, 11631>>, <<11647, 11647>>,
   <<11744, 11775>>, <<11823, 11823>>, <<12293, 12293>>,
   <<12330, 12333>>, <<12337, 12341>>, <<12347, 12347>>,
   <<12441, 12446>>, <<12540, 12542>>, <<40981, 40981>>,
   <<42232, 42237>>, <<42508, 42508>>, <<42607, 42610>>,
   <<42612, 42621>>, <<42623, 42623>>, <<42652, 42655>>,
   <<42736, 42737>>, <<42752, 42785>>, <<42864, 42864>>,
   <<42888, 42890>>, <<42993, 42996>>, <<43000, 43001>>,
   <<43010, 43010>>, <<43014, 43014>>, <<43019, 43019>>,
   <<43045, 43046>>, <<43052, 43052>>, <<43204, 43205>>,
   <<43232, 43249>>, <<43263, 43263>>, <<43302, 43309>>,
   <<43335, 43345>>, <<43392, 43394>>, <<43443, 43443>>,
   <<43446, 43449>>, <<43452, 43453>>, <<43471, 43471>>,
   <<43493, 43494>>, <<43561, 43566>>, <<43569, 43570>>,
   <<43573, 43574>>, <<43587, 43587>>, <<43596, 43596>>,
   <<43632, 43632>>, <<43644, 43644>>, <<43696, 43696>>,
   <<43698, 43700>>, <<43703, 43704>>, <<43710, 43711>>,
   <<43713, 43713>>, <<43741, 43741>>, <<43756, 43757>>,
   <<43763, 43764>>, <<43766, 43766>>, <<43867, 43871>>,
   <<43881, 43883>>, <<44005, 44005>>, <<44008, 44008>>,
   <<44013, 44013>>, <<64286, 64286>>, <<64434, 64450>>,
   <<65024, 65039>>, <<65043, 65043>>, <<65056, 65071>>,
   <<65106, 65106>>, <<65109, 65109>>, <<65279, 65279>>,
   <<65287, 65287>>, <<65294, 65294>>, <<65306, 65306>>,
   <<65342, 65342>>, <<65344, 65344>>, <<65392, 65392>>,
   <<65438, 65439>>, <<65507, 65507>>, <<65529, 65531>>,
   <<66045, 66045>>, <<66272, 66272>>, <<66422, 66426>>,
   <<67456, 67461>>, <<67463, 67504>>, <<67506, 67514>>,
   <<68097, 68099>>, <<68101, 68102>>, <<68108, 68111>>,
   <<68152, 68154>>, <<68159, 68159>>, <<68325, 68326>>,
   <<68900, 68903>>, <<68942, 68942>>, <<68969, 68973>>,
   <<68975, 68975>>, <<69291, 69292>>, <<69317, 69317>>,
   <<69370, 69375>>, <<69446, 69456>>, <<69506, 69509>>,
   <<69633, 69633>>, <<69688, 69702>>, <<69744, 69744>>,
   <<69747, 69748>>, <<69759, 69761>>, <<69811, 69814>>,
   <<69817, 69818>>, <<69821, 69821>>, <<69826, 69826>>,
   <<69837, 69837>>, <<69888, 69890>>, <<69927, 69931>>,
   <<69933, 69940>>, <<70003, 70003>>, <<70016, 70017>>,
   <<70070, 70078>>, <<70089, 70092>>, <<70095, 70095>>,
   <<70191, 70193>>, <<70196, 70196>>, <<70198, 70199>>,
   <<70206, 70206>>, <<70209, 70209>>, <<70367, 70367>>,
   <<70371, 70378>>, <<70400, 70401>>, <<70459, 70460>>,
   <<70464, 70464>>, <<70502, 70508>>, <<70512, 70516>>,
   <<70587, 70592>>, <<70606, 70606>>, <<70608, 70608>>,
   <<70610, 70610>>, <<70625, 70626>>, <<70712, 70719>>,
   <<70722, 70724>>, <<70726, 70726>>, <<70750, 70750>>,
   <<70835, 70840>>, <<70842, 70842>>, <<70847, 70848>>,
   <<70850, 70851>>, <<71090, 71093>>, <<71100, 71101>>,
   <<71103, 71104>>, <<71132, 71133>>, <<71219, 71226>>,
   <<71229, 71229>>, <<71231, 71232>>, <<71339, 71339>>,
   <<71341, 71341>>, <<71344, 71349>>, <<71351, 71351>>,
   <<71453, 71453>>, <<71455, 71455>>, <<71458, 71461>>,
   <<71463, 71467>>, <<71727, 71735>>, <<71737, 71738>>,
   <<71995, 71996>>, <<71998, 71998>>, <<72003, 72003>>,
   <<72148, 72151>>, <<72154, 72155>>, <<72160, 72160>>,
   <<72193, 72202>>, <<72243, 72248>>, <<72251, 72254>>,
   <<72263, 72263>>, <<72273, 72278>>, <<72281, 72283>>,
   <<72330, 72342>>, <<72344, 72345>>, <<72544, 72544>>,
   <<72546, 72548>>, <<72550, 72550>>, <<72752, 72758>>,
   <<72760, 72765>>, <<72767, 72767>>, <<72850, 72871>>,
   <<72874, 72880>>, <<72882, 72883>>, <<72885, 72886>>,
   <<73009, 73014>>, <<73018, 73018>>, <<73020, 73021>>,
   <<73023, 73029>>, <<73031, 73031>>, <<73104, 73105>>,
   <<73109, 73109>>, <<73111, 73111>>, <<73177, 73177>>,
   <<73459, 73460>>, <<73472, 73473>>, <<73526, 73530>>,
   <<73536, 73536>>, <<73538, 73538>>, <<73562, 73562>>,
   <<78896, 78912>>, <<78919, 78933>>, <<90398, 90409>>,
   <<90413, 90415>>, <<92912, 92916>>, <<92976, 92982>>,
   <<92992, 92995>>, <<93504, 93506>>, <<93547, 93548>>,
   <<94031, 94031>>, <<94095, 94111>>, <<94176, 94177>>,
   <<94179, 94180>>, <<94194, 94195>>, <<110576, 110579>>,
   <<110581, 110587>>, <<110589, 110590>>, <<113821, 113822>>,
   <<113824, 113827>>, <<118528, 118573>>, <<118576, 118598>>,
   <<119143, 119145>>, <<119155, 119170>>, <<119173, 119179>>,
   <<119210, 119213>>, <<119362, 119364>>, <<121344, 121398>>,
   <<121403, 121452>>, <<121461, 121461>>, <<121476, 121476>>,
   <<121499, 121503>>, <<121505, 121519>>, <<122880, 122886>>,
   <<122888, 122904>>, <<122907, 122913>>, <<122915, 122916>>,
   <<122918, 122922>>, <<122928, 122989>>, <<123023, 123023>>,
   <<123184, 123197>>, <<123566, 123566>>, <<123628, 123631>>,
   <<124139, 124143>>, <<124398, 124399>>, <<124643, 124643>>,
   <<124646, 124646>>, <<124654, 124655>>, <<124661, 124661>>,
   <<124671, 124671>>, <<125136, 125142>>, <<125252, 125259>>,
   <<127995, 127999>>, <<917505, 917505>>, <<917536, 917631>>,
   <<917760, 917999>>}
CasedRanges ==
  {<<65, 90>>, <<97, 122>>, <<170, 170>>, <<181, 181>>, <<186, 186>>,
   <<192, 214>>, <<216, 246>>, <<248, 442>>, <<444, 447>>, <<452, 659>>,
   <<662, 687>>, <<880, 883>>, <<886, 887>>, <<891, 893>>, <<895, 895>>,
   <<902, 902>>, <<904, 906>>, <<908, 908>>, <<910, 929>>,
   <<931, 1013>>, <<1015, 1153>>, <<1162, 1327>>, <<1329, 1366>>,
   <<1376, 1416>>, <<4256, 4293>>, <<4295, 4295>>, <<4301, 4301>>,
   <<4304, 4346>>, <<4349, 4351>>, <<5024, 5109>>, <<5112, 5117>>,
   <<7296, 7306>>, <<7312, 7354>>, <<7357, 7359>>, <<7424, 7467>>,
   <<7531, 7543>>, <<7545, 7578>>, <<7680, 7957>>, <<7960, 7965>>,
   <<7968, 8005>>, <<8008, 8013>>, <<8016, 8023>>, <<8025, 8025>>,
   <<8027, 8027>>, <<8029, 8029>>, <<8031, 8061>>, <<8064, 8116>>,
   <<8118, 8124>>, <<8126, 8126>>, <<8130, 8132>>, <<8134, 8140>>,
   <<8144, 8147>>, <<8150, 8155>>, <<8160, 8172>>, <<8178, 8180>>,
   <<8182, 8188>>, <<8450, 8450>>, <<8455, 8455>>, <<8458, 8467>>,
   <<8469, 8469>>, <<8473, 8477>>, <<8484, 8484>>, <<8486, 8486>>,
   <<8488, 8488>>, <<8490, 8493>>, <<8495, 8500>>, <<8505, 8505>>,
   <<8508, 8511>>, <<8517, 8521>>, <<8526, 8526>>, <<8544, 8575>>,
   <<8579, 8580>>, <<9398, 9449>>, <<11264, 11387>>, <<11390, 11492>>,
   <<11499, 11502>>, <<11506, 11507>>, <<11520, 11557>>,
   <<11559, 11559>>, <<11565, 11565>>, <<42560, 42605>>,
   <<42624, 42651>>, <<42786, 42863>>, <<42865, 42887>>,
   <<42891, 42894>>, <<42896, 42972>>, <<42997, 42998>>,
   <<43002, 43002>>, <<43824, 43866>>, <<43872, 43880>>,
   <<43888, 43967>>, <<64256, 64262>>, <<64275, 64279>>,
   <<65313, 65338>>, <<65345, 65370>>, <<66560, 66639>>,
   <<66736, 66771>>, <<66776, 66811>>, <<66928, 66938>>,
   <<66940, 66954>>, <<66956, 66962>>, <<66964, 66965>>,
   <<66967, 66977>>, <<66979, 66993>>, <<66995, 67001>>,
   <<67003, 67004>>, <<68736, 68786>>, <<68800, 68850>>,
   <<68944, 68965>>, <<68976, 68997>>, <<71840, 71903>>,
   <<93760, 93823>>, <<93856, 93880>>, <<93883, 93907>>,
   <<119808, 119892>>, <<119894, 119964>>, <<119966, 119967>>,
   <<119970, 119970>>, <<119973, 119974>>, <<119977, 119980>>,
   <<119982, 119993>>, <<119995, 119995>>, <<119997, 120003>>,
   <<120005, 120069>>, <<120071, 120074>>, <<120077, 120084>>,
   <<120086, 120092>>, <<120094, 120121>>, <<120123, 120126>>,
   <<120128, 120132>>, <<120134, 120134>>, <<120138, 120144>>,
   <<120146, 120485>>, <<120488, 120512>>, <<120514, 120538>>,
   <<120540, 120570>>, <<120572, 120596>>, <<120598, 120628>>,
   <<120630, 120654>>, <<120656, 120686>>, <<120688, 120712>>,
   <<120714, 120744>>, <<120746, 120770>>, <<120772, 120779>>,
   <<122624, 122633>>, <<122635, 122654>>, <<122661, 122666>>,
   <<125184, 125251>>, <<127280, 127305>>, <<127312, 127337>>,
   <<127344, 127369>>}
CaseIgnorable == UNION {{CodePoint(n) : n \in r[1]..r[2]} : r \in IgnorableRanges}
CasedLetters == UNION {{CodePoint(n) : n \in r[1]..r[2]} : r \in CasedRanges}
IsCased(ch) == ch \in CasedLetters
RECURSIVE CasedBefore(_, _)
CasedBefore(g, i) ==
  IF i < 1 THEN FALSE
  ELSE IF CharBefore(g, i) \in CaseIgnorable
  THEN CasedBefore(g, i - Len(CharBefore(g, i)))
  ELSE IsCased(CharBefore(g, i))
RECURSIVE CasedAfter(_, _)
CasedAfter(g, i) ==
  IF i > Len(g) THEN FALSE
  ELSE IF CharAt(g, i) \in CaseIgnorable
  THEN CasedAfter(g, i + Len(CharAt(g, i)))
  ELSE IsCased(CharAt(g, i))
FinalSigma(g, i) ==
  g[i] = "U+03A3" /\ CasedBefore(g, i - 1) /\ ~CasedAfter(g, i + 1)

\* g.toLowerCase(), from position i on
RECURSIVE LowerFrom(_, _)
LowerFrom(g, i) ==
  IF i > Len(g) THEN <<>>
  ELSE (IF FinalSigma(g, i) THEN <<"U+03C2">> ELSE Lowered(CharAt(g, i)))
         \o LowerFrom(g, i + Len(CharAt(g, i)))
ToLowerCase(g) == LowerFrom(g, 1)
\* s.replace(/\s/g, '')
RECURSIVE RemoveSpace(_)
RemoveSpace(s) ==
  IF s = <<>> THEN <<>>
  ELSE IF IsSpace(s[1]) THEN RemoveSpace(Tail(s))
  ELSE <<s[1]>> \o RemoveSpace(Tail(s))
\* line 157: guess.toLowerCase().replace(/\s/g, '')
CleanGuess(g) == RemoveSpace(ToLowerCase(g))

\* hashGuess(text): the hex digest, or the text "error" when the digest throws
HashGuess(text, digests) ==
  IF digests THEN Digest(text) ELSE <<"e", "r", "r", "o", "r">>

\* a faulty comparison that lets a guess through when the digest failed
IsCorrectFailOpen(p, cleanGuess, hashedInput) ==
  IF p.hasHash
  THEN hashedInput = p.answerHash \/ hashedInput = <<"e", "r", "r", "o", "r">>
  ELSE cleanGuess = p.answer
\* isCorrect of line 161
IsCorrect(p, cleanGuess, hashedInput) ==
  IF p.hasHash THEN hashedInput = p.answerHash ELSE cleanGuess = p.answer

\* a faulty table whose last tier pays the 50 points of the tier before
PointsEarnedFlat(hint, tries) ==
  IF hint THEN 0
  ELSE IF tries = 0 THEN 100
  ELSE IF tries = 1 THEN 75 ELSE 50
\* a faulty table that pays 80 points after one wrong guess
PointsEarnedTypo(hint, tries) ==
  IF hint THEN 0
  ELSE IF tries = 0 THEN 100
  ELSE IF tries = 1 THEN 80
  ELSE IF tries = 2 THEN 50 ELSE 25
\* pointsEarned of line 166
PointsEarned(hint, tries) ==
  IF hint THEN 0
  ELSE IF tries = 0 THEN 100
  ELSE IF tries = 1 THEN 75
  ELSE IF tries = 2 THEN 50 ELSE 25

\* the guard of line 155: the handler goes on
SubmitGuard(g, st) == ~(g = <<>> \/ st = "checking" \/ st = "success")
\* line 331: the submit button is enabled; while it is disabled neither a
\* click on it nor Enter in the answer field submits the form
ButtonEnabled(g, st) == g # <<>> /\ st = "idle"
\* a faulty page that submits the form while status is 'success'
AcceptedInSuccess(g, st) == g # <<>> /\ st # "checking"
\* a faulty page that submits the form whenever the handler would go on
AcceptedByHandler(g, st) == ~(g = <<>> \/ st = "checking" \/ st = "success")
\* the player's submission reaches the handler (line 331) and the handler
\* goes on (line 155)
Accepted(g, st) == ButtonEnabled(g, st) /\ SubmitGuard(g, st)

\* ------------------------------------------------------------------ tasks
\* one handleSubmit invocation: where it stands (kind), the slots of 100 ms
\* its timer had still to wait when a timer was last set or run (rem), and the
\* values its closure captured
NewTask ==
  [kind |-> "digest", rem |-> 0,
   cleanGuess |-> CleanGuess(guess), puzzleId |-> CurrentPuzzleId,
   isCorrect |-> FALSE, points |-> 0,
   showHint |-> showHint, attempts |-> attempts, score |-> score,
   scoreHistory |-> scoreHistory, puzzlesToday |-> puzzlesToday]

\* a faulty scheduler that never arms the 800 ms timer of a wrong guess
TimedNoRetry(t) == t.kind \in {"verify", "advance"}
\* the invocations that wait for a timer
Timed(t) == t.kind \in {"verify", "advance", "retry"}
Timers == {i \in 1..Len(tasks) : Timed(tasks[i])}
\* the slots until the next timer runs
MinRem == IF Timers = {} THEN 0
          ELSE CHOOSE r \in 0..DelaySuccess :
                 /\ \E i \in Timers : tasks[i].rem = r
                 /\ \A i \in Timers : tasks[i].rem >= r
\* d slots pass
Elapse(ts, d) == [k \in 1..Len(ts) |->
                   IF Timed(ts[k]) THEN [ts[k] EXCEPT !.rem = @ - d] ELSE ts[k]]

Without(ts, i) == [k \in 1..(Len(ts) - 1) |-> IF k < i THEN ts[k] ELSE ts[k + 1]]
\* d slots after the last timer event task i sets a new timer: it becomes the
\* youngest timer
Rearm(i, d, t) == Append(Without(Elapse(tasks, d), i), t)
\* d slots after the last timer event task i ends
Finish(i, d) == Without(Elapse(tasks, d), i)

\* a timer callback runs when its delay has passed: the timer with the least
\* time left runs next, and timers of one delay run in the order they were set
Due(i, kind) ==
  /\ i \in 1..Len(tasks)
  /\ tasks[i].kind = kind
  /\ tasks[i].rem = MinRem
  /\ \A j \in 1..(i - 1) : ~(tasks[j].kind = kind /\ tasks[j].rem = MinRem)

\* ------------------------------------------------------------ handleSubmit
\* lines 331 and 153-160: the player submits the form (a click on the submit
\* button, or Enter in the answer field); the digest of the guess is awaited
Submit(budget) ==
  /\ PuzzleShown
  /\ submits < budget
  /\ submits' = submits + 1
  /\ IF Accepted(guess, status)
     THEN /\ status' = "checking"
          /\ tasks' = Append(tasks, NewTask)
          /\ ev' = "submit"
     ELSE /\ ev' = "submitRejected"
          /\ UNCHANGED <<status, tasks>>
  /\ UNCHANGED <<gameState, puzzlesToday, score, scoreHistory, todaysPuzzles,
                 guess, showHint, attempts, page, store, now, zone, subtle, probe,
                 ghosts>>

\* lines 160-163: the digest settles, isCorrect is computed, the 400 ms timer
\* is set
DigestDone(i, d) ==
  /\ i \in 1..Len(tasks)
  /\ tasks[i].kind = "digest"
  /\ d \in 0..MinRem
  /\ LET t == tasks[i]
         hashedInput == HashGuess(t.cleanGuess, subtle)
     IN tasks' = Rearm(i, d, [t EXCEPT !.kind = "verify", !.rem = DelayVerify,
                    !.isCorrect = IsCorrect(Puzzle(t.puzzleId), t.cleanGuess, hashedInput)])
  /\ ev' = "step"
  /\ UNCHANGED <<memory, page, store, clock, ghosts>>

\* lines 164-172: the 400 ms callback of a correct guess
VerifiedCorrect(i) ==
  /\ Due(i, "verify")
  /\ tasks[i].isCorrect
  /\ LET t == tasks[i]
         pointsEarned == PointsEarned(t.showHint, t.attempts)
         newScore == Plus(t.score, pointsEarned)
         newHistory == NewHistory(t.scoreHistory, pointsEarned)
         newPuzzlesToday == Plus(t.puzzlesToday, 1)
     IN /\ status' = "success"
        /\ IF Iterable(t.scoreHistory)
           THEN /\ store' = [store EXCEPT !.score = NumToStr(newScore),
                                          !.history = JSONStringify(newHistory),
                                          !.puzzles = NumToStr(newPuzzlesToday)]
                /\ tasks' = Rearm(i, MinRem, [t EXCEPT !.kind = "advance",
                                                       !.rem = DelaySuccess,
                                                       !.points = pointsEarned])
                /\ award' = pointsEarned
                /\ ev' = "success"
           ELSE \* the spread of line 168 throws: the callback ends there
                /\ tasks' = Finish(i, MinRem)
                /\ ev' = "successThrew"
                /\ UNCHANGED <<store, award>>
  /\ UNCHANGED <<gameState, puzzlesToday, score, scoreHistory, todaysPuzzles,
                 guess, showHint, attempts, page, clock, hintEver, wrongVerified>>

\* a faulty callback that clears the answer field at once
VerifiedWrongClearing(i) ==
  /\ Due(i, "verify")
  /\ ~tasks[i].isCorrect
  /\ status' = "error"
  /\ attempts' = attempts + 1
  /\ guess' = <<>>
  /\ tasks' = Rearm(i, MinRem, [tasks[i] EXCEPT !.kind = "retry", !.rem = DelayError])
  /\ wrongVerified' = wrongVerified + 1
  /\ ev' = "step"
  /\ UNCHANGED <<gameState, puzzlesToday, score, scoreHistory, todaysPuzzles,
                 showHint, page, store, clock, hintEver, award>>
\* lines 178-180: the 400 ms callback of a wrong guess
VerifiedWrong(i) ==
  /\ Due(i, "verify")
  /\ ~tasks[i].isCorrect
  /\ status' = "error"
  /\ attempts' = attempts + 1
  /\ tasks' = Rearm(i, MinRem, [tasks[i] EXCEPT !.kind = "retry", !.rem = DelayError])
  /\ wrongVerified' = wrongVerified + 1
  /\ ev' = "step"
  /\ UNCHANGED <<gameState, puzzlesToday, score, scoreHistory, todaysPuzzles,
                 guess, showHint, page, store, clock, hintEver, award>>

\* lines 173-177: the 1500 ms callback
\* a faulty success delay that sets the score and leaves the history
AdvanceKeepsHistory(i) ==
  /\ Due(i, "advance")
  /\ LET t == tasks[i]
         newPuzzlesToday == Plus(t.puzzlesToday, 1)
     IN /\ score' = Plus(t.score, t.points)
        /\ scoreHistory' = t.scoreHistory
        /\ puzzlesToday' = newPuzzlesToday
        /\ gameState' = IF AtLeast(newPuzzlesToday, 5) THEN "done_for_day" ELSE gameState
        /\ hintEver' = IF SameNumber(newPuzzlesToday, puzzlesToday) THEN hintEver ELSE FALSE
        /\ wrongVerified' = IF SameNumber(newPuzzlesToday, puzzlesToday) THEN wrongVerified ELSE 0
  /\ guess' = <<>>
  /\ showHint' = FALSE
  /\ attempts' = 0
  /\ status' = "idle"
  /\ tasks' = Finish(i, MinRem)
  /\ ev' = "step"
  /\ UNCHANGED <<todaysPuzzles, page, store, clock, award>>

Advance(i) ==
  /\ Due(i, "advance")
  /\ LET t == tasks[i]
         newPuzzlesToday == Plus(t.puzzlesToday, 1)
     IN /\ score' = Plus(t.score, t.points)
        /\ scoreHistory' = NewHistory(t.scoreHistory, t.points)
        /\ puzzlesToday' = newPuzzlesToday
        /\ gameState' = IF AtLeast(newPuzzlesToday, 5) THEN "done_for_day" ELSE gameState
        /\ hintEver' = IF SameNumber(newPuzzlesToday, puzzlesToday) THEN hintEver ELSE FALSE
        /\ wrongVerified' = IF SameNumber(newPuzzlesToday, puzzlesToday) THEN wrongVerified ELSE 0
  /\ guess' = <<>>
  /\ showHint' = FALSE
  /\ attempts' = 0
  /\ status' = "idle"
  /\ tasks' = Finish(i, MinRem)
  /\ ev' = "step"
  /\ UNCHANGED <<todaysPuzzles, page, store, clock, award>>

\* a faulty error settle that forgets the wrong guesses of the puzzle
RetryForgetting(i) ==
  /\ Due(i, "retry")
  /\ status' = "idle"
  /\ guess' = <<>>
  /\ attempts' = 0
  /\ tasks' = Finish(i, MinRem)
  /\ ev' = "step"
  /\ UNCHANGED <<gameState, puzzlesToday, score, scoreHistory, todaysPuzzles,
                 showHint, page, store, clock, ghosts>>
\* line 180: the 800 ms callback
Retry(i) ==
  /\ Due(i, "retry")
  /\ status' = "idle"
  /\ guess' = <<>>
  /\ tasks' = Finish(i, MinRem)
  /\ ev' = "step"
  /\ UNCHANGED <<gameState, puzzlesToday, score, scoreHistory, todaysPuzzles,
                 showHint, attempts, page, store, clock, ghosts>>

\* ------------------------------------------------------------- the player
\* line 330: the answer field changes (it is disabled while checking/success)
Type(v) ==
  /\ PuzzleShown
  /\ status # "success" /\ status # "checking"
  /\ v # guess
  /\ guess' = v
  /\ ev' = "step"
  /\ UNCHANGED <<gameState, puzzlesToday, score, scoreHistory, todaysPuzzles,
                 status, showHint, attempts, page, store, clock, tasks, ghosts>>

\* line 335: the hint button, rendered while the hint is hidden
RevealHint ==
  /\ PuzzleShown
  /\ ~showHint
  /\ showHint' = TRUE
  /\ hintEver' = TRUE
  /\ ev' = "step"
  /\ UNCHANGED <<gameState, puzzlesToday, score, scoreHistory, todaysPuzzles,
                 guess, status, attempts, page, store, clock, tasks,
                 wrongVerified, award>>

\* lines 233, 263 and 290: the buttons that change the screen
Navigate ==
  /\ page = "ready"
  /\ \/ gameState = "landing" /\ gameState' = "rules"
     \/ gameState = "rules" /\ gameState' = "playing"
     \/ gameState = "done_for_day" /\ gameState' = "rules"
  /\ ev' = "step"
  /\ UNCHANGED <<puzzlesToday, score, scoreHistory, todaysPuzzles, guess, status,
                 showHint, attempts, page, store, clock, tasks, ghosts>>

\* ------------------------------------------------------ the done-for-day screen
\* the emoji of one award (lines 188-192)
Block(pts) ==
  IF pts = 100 THEN "green"
  ELSE IF pts = 75 THEN "yellow"
  ELSE IF pts = 50 THEN "orange"
  ELSE IF pts = 25 THEN "red" ELSE "black"
\* blocks of lines 187-193, of a history that is an array: an element that
\* is no number is none of the four awards
Blocks(history) ==
  IF IsPlain(history) THEN [i \in 1..Len(history) |-> Block(history[i])]
  ELSE [i \in 1..Len(history.json.arr) |->
          IF "num" \in DOMAIN history.json.arr[i]
          THEN Block(history.json.arr[i].num) ELSE "black"]
\* a faulty rank that takes 400 points for the third tier
RankAbove(points) ==
  IF Is(points, 500) THEN "Double-O Status"
  ELSE IF Above(points, 400) THEN "Senior Intelligence"
  ELSE IF AtLeast(points, 200) THEN "Field Agent" ELSE "Burn Notice"
\* rank of lines 194-198
Rank(points) ==
  IF Is(points, 500) THEN "Double-O Status"
  ELSE IF AtLeast(points, 400) THEN "Senior Intelligence"
  ELSE IF AtLeast(points, 200) THEN "Field Agent" ELSE "Burn Notice"
\* shareText of line 199
ShareText(dayNum, points, history) ==
  [shown |-> "share", dayNum |-> dayNum, rank |-> Rank(points),
   score |-> points, blocks |-> Blocks(history)]

\* lines 185-207: the share button of the done-for-day screen; probe holds
\* what the page last put out
Share ==
  /\ page = "ready"
  /\ gameState = "done_for_day"
  /\ probe' = IF IsArray(scoreHistory)
              THEN ShareText(GetDayIndex(zone, now), score, scoreHistory)
              ELSE \* scoreHistory.map of line 187 throws: nothing is put out
                   probe
  /\ ev' = "step"
  /\ UNCHANGED <<memory, page, store, now, zone, subtle, submits, tasks, ghosts>>

NextMidnight(z, t) ==
  CHOOSE u \in (t + 1)..(t + DayLen + 1) :
    LocalDay(z, u) = LocalDay(z, t) + 1 /\ LocalDay(z, u - 1) = LocalDay(z, t)
PassMidnight ==
  /\ NextMidnight(zone, now) <= MaxHour
  /\ now' = NextMidnight(zone, now)
  /\ ev' = "step"
  /\ UNCHANGED <<memory, page, store, zone, subtle, submits, probe, tasks, ghosts>>

\* lines 136-151: the countdown of the done-for-day screen is computed anew;
\* only its hours are kept
CountdownTick ==
  /\ page = "ready"
  /\ gameState = "done_for_day"
  /\ probe' = [shown |-> "countdown",
               h |-> JsRem(NextMidnight(zone, now) - now, 24)]
  /\ probe' # probe
  /\ ev' = "step"
  /\ UNCHANGED <<memory, page, store, now, zone, subtle, submits, tasks, ghosts>>

Play(budget) ==
  \/ Submit(budget)
  \/ \E i \in 1..Len(tasks), d \in 0..DelaySuccess : DigestDone(i, d)
  \/ \E i \in 1..Len(tasks) : VerifiedCorrect(i)
  \/ \E i \in 1..Len(tasks) : VerifiedWrong(i)
  \/ \E i \in 1..Len(tasks) : Advance(i)
  \/ \E i \in 1..Len(tasks) : Retry(i)
  \/ \E v \in GuessInputs : Type(v)
  \/ RevealHint

Next ==
  \/ LoadEffect
  \/ Reload
  \/ Navigate
  \/ PassMidnight
  \/ Share
  \/ CountdownTick
  \/ Play(MaxSubmits)

Spec == Init /\ [][Next]_vars

\* the game under fair scheduling: a digest that is awaited settles, and a
\* timer that is set runs
DigestSettles == \E i \in 1..Len(tasks), d \in 0..DelaySuccess : DigestDone(i, d)
TimerRuns ==
  \E i \in 1..Len(tasks) :
    VerifiedCorrect(i) \/ VerifiedWrong(i) \/ Advance(i) \/ Retry(i)
NextLive ==
  \/ LoadEffect
  \/ Reload
  \/ Navigate
  \/ PassMidnight
  \/ Share
  \/ CountdownTick
  \/ Play(LiveSubmits)

SpecLive == Init /\ [][NextLive]_vars /\ WF_vars(DigestSettles) /\ WF_vars(TimerRuns)

\* ------------------------------------------------- loading any stored text
\* what the four keys may hold when the page is opened: nothing, what the
\* game wrote, or any other text
DateTexts == {null, DateString("fixed", 0), DateString("fixed", -DayLen)}
NumberTexts == {null, <<"0">>, <<"3">>, <<"7">>, <<"-", "2">>, <<"a", "b", "c">>,
                <<"\r", "3">>}
HistoryTexts == {null, JSONStringify(<<>>), JSONStringify(<<100, 0, 75>>),
                 <<"o", "o", "p", "s">>, <<"[", "1", "0", "0", ",">>,
                 <<"n", "u", "l", "l">>, <<"[", "1", "0", "0", ",", " ", "7", "5", "]">>,
                 <<"5">>}

InitStore ==
  /\ Fresh
  /\ store \in [date : DateTexts, puzzles : NumberTexts,
                 score : NumberTexts, history : HistoryTexts]
  /\ now = 0
  /\ zone = "fixed"
  /\ subtle \in BOOLEAN
  /\ probe = <<>>

NextStore ==
  \/ LoadEffect
  \/ Reload
  \/ Navigate
  \/ PassMidnight

SpecStore == InitStore /\ [][NextStore]_vars

\* ------------------------------------------------ the daily set selector
\* the orders of n distinct ids, n in 1..MaxOrder
Orders ==
  UNION {{o \in [1..n -> 1..MaxOrder] : \A i, j \in 1..n : i # j => o[i] # o[j]}
         : n \in 1..MaxOrder}

InitSelect ==
  /\ Fresh
  /\ store = EmptyStore
  /\ now = 0
  /\ zone = "fixed"
  /\ subtle = TRUE
  /\ \E o \in Orders, d \in 0..MaxOffset :
       probe = [pc |-> "call", order |-> o, offset |-> d, ids |-> <<>>]

\* the loop of getTodaysPuzzles runs on the order and the day offset
Select ==
  /\ probe.pc = "call"
  /\ probe' = [probe EXCEPT !.pc = "done",
                            !.ids = TodaysPuzzles(probe.offset, probe.order)]
  /\ UNCHANGED <<memory, page, store, now, zone, subtle, submits, tasks, ev, ghosts>>

SpecSelect == InitSelect /\ [][Select]_vars

\* --------------------------------------------------------- the day indexer
\* the clock is read at every hour from 2023-12-30 00:00 to ClockEnd
ClockStart == -2 * DayLen
\* getDayIndex() and getTodaysPuzzles() read at the hour t; before is the
\* reading of the hour before (none when the walk starts at t)
Reading(z, t) == [day |-> LocalDay(z, t), index |-> GetDayIndex(z, t),
                  ids |-> GetTodaysPuzzles(z, t)]

InitClock ==
  /\ Fresh
  /\ store = EmptyStore
  /\ now \in ClockStart..ClockEnd
  /\ zone \in {"fixed", "dst"}
  /\ subtle = TRUE
  /\ probe = [pc |-> "start", at |-> Reading(zone, now), before |-> Reading(zone, now)]

HourPasses ==
  /\ now < ClockEnd
  /\ now' = now + 1
  /\ probe' = [pc |-> "walk", at |-> Reading(zone, now + 1), before |-> probe.at]
  /\ UNCHANGED <<memory, page, store, zone, subtle, submits, tasks, ev, ghosts>>

SpecClock == InitClock /\ [][HourPasses]_vars

\* ------------------------------------------------ the master order builder
\* the pools an order is built of: the ids of puzzles.json, and every order
\* of at most MaxOrder distinct ids
Pools == Orders \cup {puzzleIds}

\* line 5: seededRandom(seed) returns a function closed over its own variable
\* seed, which every call of the function advances (line 7); the generator
\* is this variable, as a pair of 16-bit halves
SeededRandom(seed) == <<seed \div Half, seed % Half>>
\* The arrays of the program are objects of a heap and a variable holds the
\* name of one: "puzzles" is the imported pool, "first" and "second" are the
\* arrays the two invocations of the builder create, "todaysIds" the array
\* of getTodaysPuzzles. The array an invocation creates:
Created(p) == IF p.pc = "start" THEN "first" ELSE "second"
\* a faulty builder that creates its generator in its first invocation only
\* and draws from the same one in every later invocation
InvocationSharing(p) ==
  [p EXCEPT !.seed = IF p.seed = <<>> THEN SeededRandom(Seed) ELSE p.seed,
            !.ids = Created(p),
            !.heap[Created(p)] = p.heap.puzzles,
            !.i = Len(p.heap.puzzles) - 1]
\* a faulty builder that shuffles the array of the pool itself
InvocationInPlace(p) ==
  [p EXCEPT !.seed = SeededRandom(Seed),
            !.ids = "puzzles",
            !.i = Len(p.heap.puzzles) - 1]
\* lines 15-17: an invocation of getMasterPuzzleList creates a generator of
\* its own, maps the pool to a new array ids and starts the loop at the last
\* index
Invocation(p) ==
  [p EXCEPT !.seed = SeededRandom(Seed),
            !.ids = Created(p),
            !.heap[Created(p)] = p.heap.puzzles,
            !.i = Len(p.heap.puzzles) - 1]

\* the module before it is evaluated: no generator exists and
\* masterPuzzleList has no value; pool, returned and again record the pool
\* as it was given and what the two invocations returned
InitOrder ==
  /\ Fresh
  /\ store = EmptyStore
  /\ now = 0
  /\ zone = "fixed"
  /\ subtle = TRUE
  /\ \E pool \in Pools :
       probe = [pc |-> "start", pool |-> pool,
                heap |-> [puzzles |-> pool, first |-> <<>>, second |-> <<>>,
                          todaysIds |-> <<>>],
                seed |-> <<>>, ids |-> "none", i |-> 0,
                masterPuzzleList |-> "none", returned |-> <<>>, again |-> <<>>]

\* line 24: the module is evaluated and getMasterPuzzleList() is invoked
BuildOrder ==
  /\ probe.pc = "start"
  /\ probe' = [Invocation(probe) EXCEPT !.pc = "first"]
  /\ UNCHANGED <<memory, page, store, now, zone, subtle, submits, tasks, ev, ghosts>>
\* getMasterPuzzleList() is invoked once more in the same program
BuildAgain ==
  /\ probe.pc = "built"
  /\ probe' = [Invocation(probe) EXCEPT !.pc = "second"]
  /\ UNCHANGED <<memory, page, store, now, zone, subtle, submits, tasks, ev, ghosts>>
\* lines 17-20: one iteration of the loop of the running invocation; the
\* call random() advances the seed of the invocation's generator and the
\* exchange writes to the array ids names
ShuffleStep ==
  /\ probe.pc \in {"first", "second"}
  /\ probe.i > 0
  /\ probe' = [probe EXCEPT
                 !.heap[probe.ids] =
                    Swapped(probe.heap[probe.ids], probe.i,
                            FloorScale(RandomWord(probe.seed), probe.i + 1)),
                 !.seed = NextSeed(probe.seed),
                 !.i = probe.i - 1]
  /\ UNCHANGED <<memory, page, store, now, zone, subtle, submits, tasks, ev, ghosts>>
\* line 21: the running invocation returns ids; line 24 makes
\* masterPuzzleList name the array the first invocation returns
ReturnOrder ==
  /\ probe.pc \in {"first", "second"}
  /\ probe.i <= 0
  /\ probe' = IF probe.pc = "first"
              THEN [probe EXCEPT !.pc = "built", !.masterPuzzleList = probe.ids,
                                 !.returned = probe.heap[probe.ids]]
              ELSE [probe EXCEPT !.pc = "again", !.again = probe.heap[probe.ids]]
  /\ UNCHANGED <<memory, page, store, now, zone, subtle, submits, tasks, ev, ghosts>>
\* lines 33-41: getTodaysPuzzles fills a new array todaysIds with the
\* entries it reads from masterPuzzleList
SelectDay ==
  /\ probe.pc = "again"
  /\ \E d \in 0..MaxOffset :
       probe' = [probe EXCEPT
                   !.pc = "selected",
                   !.heap.todaysIds =
                      TodaysPuzzles(d, probe.heap[probe.masterPuzzleList])]
  /\ UNCHANGED <<memory, page, store, now, zone, subtle, submits, tasks, ev, ghosts>>

NextOrder == BuildOrder \/ BuildAgain \/ ShuffleStep \/ ReturnOrder \/ SelectDay
SpecOrder == InitOrder /\ [][NextOrder]_vars

\* ------------------------------------------------------- the shuffle loop
\* the seeds a generator is started with: the seed of line 15, zero, the
\* sign bit alone and all bits set
Seeds == {<<0, Seed>>, <<0, 0>>, <<Half \div 2, 0>>, <<Half - 1, Half - 1>>}
\* outputs at the ends of the range a generator can return: 0, 1 / 2^32,
\* one half, and the largest float below 1
EdgeWords == {<<0, 0>>, <<0, 1>>, <<Half \div 2, 0>>, <<Half - 1, Half - 1>>}

\* the pools the loop is run on: the loop reads positions and never the ids
\* themselves, so of the pools with the same ids the ascending one is taken
ShufflePools ==
  {o \in Orders : \A a, b \in 1..Len(o) : a < b => o[a] < o[b]} \cup {puzzleIds}

\* the loop of lines 17-20 is run one iteration at a time on a pool of
\* distinct ids; r is the word of the last output, j the index it gave at
\* position at
InitShuffle ==
  /\ Fresh
  /\ store = EmptyStore
  /\ now = 0
  /\ zone = "fixed"
  /\ subtle = TRUE
  /\ \E pool \in ShufflePools, seed \in Seeds :
       probe = [pc |-> "start", pool |-> pool, start |-> seed, seed |-> seed,
                ids |-> pool, i |-> Len(pool) - 1, generated |-> TRUE,
                r |-> <<0, 0>>, j |-> 0, at |-> 0]

\* lines 18-19 at position probe.i when random() returned the word w
\* (generated: w is the output of seededRandom); the call advances the seed
Iterate(w, generated) ==
  LET i == probe.i
      j == FloorScale(w, i + 1)
  IN probe' = [probe EXCEPT !.pc = "loop", !.ids = Swapped(probe.ids, i, j),
                            !.i = i - 1, !.r = w, !.j = j, !.at = i,
                            !.seed = NextSeed(probe.seed),
                            !.generated = probe.generated /\ generated]
\* one iteration with the output of seededRandom
Draw ==
  /\ probe.pc \in {"start", "loop"}
  /\ probe.i > 0
  /\ Iterate(RandomWord(probe.seed), TRUE)
  /\ UNCHANGED <<memory, page, store, now, zone, subtle, submits, tasks, ev, ghosts>>
\* one iteration with an output at an end of the range [0, 1), as another
\* generator of the same contract could return it
DrawEdge ==
  /\ probe.pc \in {"start", "loop"}
  /\ probe.i > 0
  /\ \E w \in EdgeWords : Iterate(w, FALSE)
  /\ UNCHANGED <<memory, page, store, now, zone, subtle, submits, tasks, ev, ghosts>>
\* line 21: the loop has ended and ids is returned
ReturnIds ==
  /\ probe.pc \in {"start", "loop"}
  /\ probe.i <= 0
  /\ probe' = [probe EXCEPT !.pc = "done"]
  /\ UNCHANGED <<memory, page, store, now, zone, subtle, submits, tasks, ev, ghosts>>

NextShuffle == Draw \/ DrawEdge \/ ReturnIds
SpecShuffle == InitShuffle /\ [][NextShuffle]_vars

\* ----------------------------------------------------- the share summary
\* the histories of at most five awards, each with the score they add up to
Awards == {0, 25, 50, 75, 100}
Histories == UNION {[1..n -> Awards] : n \in 0..SetSize}

InitShare ==
  /\ Fresh
  /\ store = EmptyStore
  /\ now = 0
  /\ zone = "fixed"
  /\ subtle = TRUE
  /\ \E h \in Histories :
       probe = [pc |-> "call", score |-> Sum(h), history |-> h, text |-> <<>>]

\* handleShare runs with this score and this history in memory
ShareCall ==
  /\ probe.pc = "call"
  /\ probe' = [probe EXCEPT !.pc = "done",
                 !.text = ShareText(GetDayIndex(zone, now), probe.score, probe.history)]
  /\ UNCHANGED <<memory, page, store, now, zone, subtle, submits, tasks, ev, ghosts>>

SpecShare == InitShare /\ [][ShareCall]_vars

\* ------------------------------------------------ the verification function
\* text.toUpperCase()
ToUpperChar(c) == IF \E i \in 1..26 : Lower[i] = c
                  THEN Upper[CHOOSE i \in 1..26 : Lower[i] = c] ELSE c
UpperText(s) == [i \in 1..Len(s) |-> ToUpperChar(s[i])]

\* the puzzles verification is tried on: one of the pool with a plaintext
\* answer, one with a digest, and one whose digest is stored in upper-case
\* hex digits; plain is the answer the author normalized and stored or digested
VerifyPuzzles ==
  {[puzzle |-> Puzzle(1), plain |-> <<"k", "e", "y">>],
   [puzzle |-> Puzzle(2), plain |-> <<"o", "k">>],
   [puzzle |-> [Puzzle(2) EXCEPT !.answerHash = UpperText(Digest(<<"o", "k">>))],
    plain |-> <<"o", "k">>]}
\* the texts of at most MaxGuessLen of these characters (U+00A0 is the
\* no-break space, U+212A the Kelvin sign, whose lower case is "k")
GuessChars == {"k", "e", "y", "o", "K", " ", "U+00A0", "U+212A"}
GuessTexts == UNION {[1..n -> GuessChars] : n \in 0..MaxGuessLen}

InitVerify ==
  /\ Fresh
  /\ store = EmptyStore
  /\ now = 0
  /\ zone = "fixed"
  /\ subtle = TRUE
  /\ \E v \in VerifyPuzzles, g \in GuessTexts :
       probe = [pc |-> "call", puzzle |-> v.puzzle, plain |-> v.plain,
                guess |-> g, cleanGuess |-> <<>>, isCorrect |-> FALSE]

\* lines 157-160 run on the guess and the puzzle: the guess is cleaned and
\* the invocation waits for hashGuess
VerifyCall ==
  /\ probe.pc = "call"
  /\ probe' = [probe EXCEPT !.pc = "awaiting", !.cleanGuess = CleanGuess(probe.guess)]
  /\ UNCHANGED <<memory, page, store, now, zone, subtle, submits, tasks, ev, ghosts>>
\* hashGuess has settled and line 161 runs
VerifySettle ==
  /\ probe.pc = "awaiting"
  /\ LET hashedInput == HashGuess(probe.cleanGuess, subtle)
     IN probe' = [probe EXCEPT !.pc = "done",
                    !.isCorrect = IsCorrect(probe.puzzle, probe.cleanGuess, hashedInput)]
  /\ UNCHANGED <<memory, page, store, now, zone, subtle, submits, tasks, ev, ghosts>>

NextVerify == VerifyCall \/ VerifySettle
SpecVerify == InitVerify /\ [][NextVerify]_vars

\* ================================================================ properties
\* the page runs its load effect in this step
LoadStep == page = "mounting" /\ page' # "mounting"
\* the answer form is submitted in this step
SubmitStep == submits' = submits + 1
\* the timer callback of the handleSubmit invocation tasks[i] runs in this step
Fired(i) ==
  /\ i \in 1..Len(tasks)
  /\ Timed(tasks[i])
  /\ tasks[i].rem = MinRem
  /\ page' = page
  /\ tasks' # tasks
  /\ Len(tasks') \in {Len(tasks) - 1, Len(tasks)}
  /\ SubSeq(tasks', 1, Len(tasks) - 1) = Without(Elapse(tasks, MinRem), i)
\* the session the reset of lines 117-120 stores for the date string d
ZeroSession(d) == [date |-> d, puzzles |-> <<"0">>, score |-> <<"0">>,
                   history |-> <<"[", "]">>]

\* C1: when a puzzle enters 'success' and its hint was revealed at any earlier
\* moment while it was the active puzzle (also between the submission and its
\* outcome), the points awarded for it are 0.
C1_HintCapsAward == (ev = "success" /\ hintEver) => award = 0

\* C2: when a puzzle is resolved correctly with no hint revealed, the award is
\* 100, 75, 50 or 25 according to whether 0, 1, 2 or at least 3 wrong guesses
\* were verified on that puzzle before the success; the stored score grows by
\* the award and the stored history by one entry equal to it, and so do the
\* score and the history of the page when it advances. The wrong guesses
\* counted are those verified since the puzzle became the active one of the
\* page: the attempt counter is state of the page, which a reload starts
\* again at zero (line 102), and wrongVerified is counted the same way.
C2_AwardByWrongGuesses ==
  [][/\ (ev' = "success" /\ ~hintEver') =>
          /\ award' = IF wrongVerified' = 0 THEN 100
                      ELSE IF wrongVerified' = 1 THEN 75
                      ELSE IF wrongVerified' = 2 THEN 50 ELSE 25
          /\ store'.score = NumToStr(score + award')
          /\ store'.history = JSONStringify(NewHistory(scoreHistory, award'))
     /\ (page = "ready" /\ puzzlesToday' > puzzlesToday /\ ~hintEver) =>
          /\ score' = score + award
          /\ scoreHistory' = NewHistory(scoreHistory, award)]_vars
\* the fourth guess on a puzzle was the right one, with the hint hidden: three
\* wrong guesses were verified before it and the last tier was paid
C2_FourthGuessRight ==
  ev = "success" /\ ~hintEver /\ wrongVerified = 3 /\ award = 25 /\ submits = 4

\* C3: a puzzle that has entered 'success' is restored by a reload at any
\* later moment of the same local date: the success stores its session under
\* the date string of the day, so that the load of lines 115-121 resumes it;
\* and within one stored date the persisted count of completed puzzles and
\* the persisted history never lose a completed puzzle.
C3_CompletedPuzzleNeverLost ==
  [][/\ (ev' = "success" /\ store' # store) =>
          ~DateChanged(store'.date, DateString(zone', now'))
     /\ store'.date = store.date =>
          /\ ParseIntOr0(store'.puzzles) >= ParseIntOr0(store.puzzles)
          /\ Len(JSONParse(store'.history).val) >= Len(JSONParse(store.history).val)]_vars

\* C4: a load that finds a stored date other than today's date string (or
\* none) leaves the persisted and the in-memory session at
\* {today, 0, 0, []}, whatever the stored values were.
C4_ResetOnDateChange ==
  [][(LoadStep /\ store.date # DateString(zone, now)) =>
       /\ store' = ZeroSession(DateString(zone, now))
       /\ puzzlesToday' = 0
       /\ score' = 0
       /\ scoreHistory' = <<>>]_vars

\* C5: a load that finds today's date string stored leaves the four stored
\* values unchanged and sets the in-memory copies equal to them; the stored
\* values change only when a puzzle is completed or a session of another day
\* is reset.
C5_SameDateLoadKeepsSession ==
  [][/\ (LoadStep /\ store.date = DateString(zone, now)) =>
          /\ store' = store
          /\ NumToStr(puzzlesToday') = store.puzzles
          /\ NumToStr(score') = store.score
          /\ JSONStringify(scoreHistory') = store.history
     /\ store' # store =>
          \/ ev' = "success"
          \/ LoadStep /\ store.date # DateString(zone, now)]_vars
\* a page reloaded after one puzzle was completed has resumed that session
C5_Resumed ==
  /\ ev = "loadResume"
  /\ puzzlesToday = 1
  /\ score = 100
  /\ scoreHistory = <<100>>
  /\ store = SessionStore(0, <<100>>)

\* C6: a load always completes: no stored value, missing or malformed, makes
\* it fail or leaves the session un-initialized, whether or not the stored
\* date is today's.
C6_LoadAlwaysCompletes == page # "failed"

\* C7: a submission with an empty guess, or made while status is 'checking'
\* or 'success', changes neither the React state nor the store and sets no
\* timer; a submission with a non-empty guess in 'idle' moves status to
\* 'checking'.
C7_RejectedSubmitChangesNothing ==
  [][SubmitStep =>
       IF guess = <<>> \/ status = "checking" \/ status = "success"
       THEN UNCHANGED <<memory, store, tasks, page>>
       ELSE status = "idle" => status' = "checking"]_vars
\* the form was submitted, with a guess in the field, while status was
\* 'success', and the submission was turned down
C7_RejectedInSuccess == ev = "submitRejected" /\ status = "success" /\ guess # <<>>

\* C8: for a master order of n >= 1 ids and a day offset d >= 0 the daily set
\* has exactly 5 ids, slot k (0..4) being order[(5*d + k) mod n]; every id is
\* one of the order, and two slots hold the same id only if n < 5.
C8_WindowOfFive ==
  probe.pc = "done" =>
    LET n == Len(probe.order)
    IN /\ Len(probe.ids) = 5
       /\ \A k \in 0..4 : probe.ids[k + 1] = probe.order[((5 * probe.offset + k) % n) + 1]
       /\ \A k \in 1..5 : \E i \in 1..n : probe.ids[k] = probe.order[i]
       /\ (\E j, k \in 1..5 : j # k /\ probe.ids[j] = probe.ids[k]) => n < 5
\* a set that wraps around the end of an order of six ids
C8_Wrapped ==
  /\ probe.pc = "done"
  /\ Len(probe.order) = 6
  /\ probe.offset = 1
  /\ probe.ids[1] = probe.order[6]
  /\ probe.ids[2] = probe.order[1]

\* C9: on and after the epoch the day offset never decreases as the clock
\* advances and grows by exactly 1 at each local midnight, also over local
\* days of 23 or 25 hours.
C9_OnePerLocalDay ==
  (probe.pc = "walk" /\ probe.before.day >= 0) =>
    /\ probe.at.index >= probe.before.index
    /\ probe.at.day = probe.before.day + 1 => probe.at.index = probe.before.index + 1
    /\ probe.at.day = probe.before.day => probe.at.index = probe.before.index

\* C10: the day index is never negative, also when the clock of the device
\* stands before the epoch, and every slot of the daily set holds a defined
\* puzzle id.
C10_IndexNeverNegative ==
  /\ probe.at.index >= 0
  /\ \A k \in 1..SetSize : probe.at.ids[k] # undefined

\* C11: the normalized form of a puzzle's own answer is judged correct, for a
\* plaintext answer and for a digest (whatever the case of its hex digits),
\* and so is every guess that differs from the answer only in letter case or
\* whitespace.
C11_OwnAnswerIsCorrect ==
  (probe.pc = "done" /\ CleanGuess(probe.guess) = probe.plain) => probe.isCorrect

\* C12: when the digest cannot be computed, a guess on a puzzle with an
\* answerHash is handled like a wrong guess: its 400 ms callback sets status
\* 'error', adds one to attempts, awards and stores nothing, and sets the
\* 800 ms timer that ends the error.
C12_DigestFailureIsWrongGuess ==
  [][~subtle =>
       \A i \in 1..Len(tasks) :
         (Fired(i) /\ tasks[i].kind = "verify" /\ Puzzle(tasks[i].puzzleId).hasHash) =>
           /\ status' = "error"
           /\ attempts' = attempts + 1
           /\ UNCHANGED <<store, score, scoreHistory, puzzlesToday, award>>
           /\ Len(tasks') = Len(tasks)
           /\ tasks'[Len(tasks')].kind = "retry"]_vars
\* the right answer of the first puzzle of the day (id 4, stored as a digest)
\* was refused on a device without crypto.subtle
C12_RightAnswerRefused ==
  /\ ~subtle
  /\ CurrentPuzzleId = 4
  /\ Puzzle(4).hasHash
  /\ guess = <<"o", "k">>
  /\ status = "error"
  /\ attempts = 1
  /\ store.puzzles = <<"0">>

\* the ranges of a session
SessionInRange(completed, total, history) ==
  /\ completed \in 0..5
  /\ total \in 0..500
  /\ \A i \in 1..Len(history) : history[i] \in {0, 25, 50, 75, 100}
  /\ Len(history) = completed
\* C13: in every reachable state the in-memory and the persisted session
\* have puzzlesCompletedToday in 0..5, cumulativeScore in 0..500, history
\* entries among 0, 25, 50, 75, 100, and one history entry per completed
\* puzzle.
C13_SessionAlwaysInRange ==
  /\ SessionInRange(puzzlesToday, score, scoreHistory)
  /\ SessionInRange(ParseIntOr0(store.puzzles), ParseIntOr0(store.score),
                    JSONParse(store.history).val)
\* the fifth puzzle of the day was completed in this page session
C13_FiveCompleted ==
  /\ page = "ready"
  /\ gameState = "done_for_day"
  /\ puzzlesToday = 5
  /\ Len(scoreHistory) = 5
  /\ score = 250 + scoreHistory[5]
  /\ store.puzzles = <<"5">>
  /\ submits > 0

\* the positions a pool of n ids is read at, computed apart from this module
\* with the generator of lines 5-12 and the loop of lines 17-20
ReferenceOrder ==
  <<<<1>>, <<1, 2>>, <<3, 1, 2>>, <<1, 4, 2, 3>>, <<1, 5, 3, 2, 4>>,
    <<2, 1, 5, 6, 3, 4>>, <<4, 2, 1, 6, 7, 3, 5>>, <<3, 8, 2, 1, 7, 6, 4, 5>>>>
\* C14: every invocation of getMasterPuzzleList on one pool gives the same
\* permutation: the second invocation, run with the generator and the array
\* it creates for itself, returns what the first returned, which is the order
\* the seed 42 fixes and the order the game reads as masterPuzzleList; the
\* array masterPuzzleList names holds what line 24 was given, and the array
\* of the pool what it held at first, through the second invocation and the
\* reading of a daily set.
C14_MasterOrderStable ==
  LET n == Len(probe.pool)
  IN /\ probe.pc \in {"built", "second", "again", "selected"} =>
          /\ probe.returned = [k \in 1..n |-> probe.pool[ReferenceOrder[n][k]]]
          /\ probe.returned = GetMasterPuzzleList(probe.pool)
          /\ probe.heap[probe.masterPuzzleList] = probe.returned
     /\ probe.pc \in {"again", "selected"} => probe.again = probe.returned
     /\ probe.heap.puzzles = probe.pool
\* the order of the seven puzzles was built twice, each time in an array of
\* its own by a generator that started at the seed 42 and was advanced once
\* for every index of the loop, and a daily set was read from it
C14_BuiltTwice ==
  /\ probe.pc = "selected"
  /\ probe.pool = puzzleIds
  /\ probe.again = <<4, 2, 1, 6, 7, 3, 5>>
  /\ probe.heap.first = <<4, 2, 1, 6, 7, 3, 5>>
  /\ probe.heap.second = <<4, 2, 1, 6, 7, 3, 5>>
  /\ probe.masterPuzzleList = "first"
  /\ probe.seed # SeededRandom(Seed)
  /\ probe.heap.todaysIds = <<3, 5, 4, 2, 1>>

\* C15: the rank of the share summary is the top tier iff the score is 500,
\* the second iff 400 <= score < 500, the third iff 200 <= score < 400, the
\* lowest otherwise; with five puzzles completed the bar has five symbols,
\* the i-th encoding the i-th award (100 green, 75 yellow, 50 orange, 25 red,
\* 0 black).
C15_ShareSummary ==
  probe.pc = "done" =>
    /\ probe.text.rank = "Double-O Status" <=> probe.score = 500
    /\ probe.text.rank = "Senior Intelligence" <=> (400 <= probe.score /\ probe.score < 500)
    /\ probe.text.rank = "Field Agent" <=> (200 <= probe.score /\ probe.score < 400)
    /\ probe.text.rank = "Burn Notice" <=> probe.score < 200
    /\ probe.text.score = probe.score
    /\ Len(probe.history) = 5 =>
         /\ Len(probe.text.blocks) = 5
         /\ \A i \in 1..5 :
              probe.text.blocks[i] = CASE probe.history[i] = 100 -> "green"
                                       [] probe.history[i] = 75 -> "yellow"
                                       [] probe.history[i] = 50 -> "orange"
                                       [] probe.history[i] = 25 -> "red"
                                       [] probe.history[i] = 0 -> "black"
\* a day of 400 points was shared
C15_SharedFourHundred ==
  /\ probe.pc = "done"
  /\ probe.history = <<100, 100, 100, 75, 25>>
  /\ probe.text.rank = "Senior Intelligence"
  /\ probe.text.blocks = <<"green", "green", "green", "yellow", "red">>

\* C16: from the moment a guess is accepted until its outcome has been
\* applied no second guess is accepted: at most one verification (a digest
\* awaited or a 400 ms callback pending) is in flight at any time.
C16_OneVerificationInFlight ==
  Cardinality({i \in 1..Len(tasks) : tasks[i].kind \in {"digest", "verify"}}) <= 1
\* the player submitted again while the one verification was in flight, and
\* was turned down
C16_SecondSubmitTurnedDown ==
  /\ ev = "submitRejected"
  /\ status = "checking"
  /\ guess # <<>>
  /\ Len(tasks) = 1
  /\ tasks[1].kind \in {"digest", "verify"}

\* C17: a timer callback of a guess submitted while puzzle index k was active
\* changes neither status, guess, attempts, hint flag, score, history,
\* puzzlesCompletedToday nor the store once the active index is greater
\* than k: no callback is left pending when the index grows, and every
\* pending callback was submitted on the active index.
C17_NoLateCallback ==
  [][/\ \A i \in 1..Len(tasks) :
          (Fired(i) /\ tasks[i].puzzlesToday < puzzlesToday) =>
            UNCHANGED <<status, guess, attempts, showHint, score, scoreHistory,
                        puzzlesToday, store>>
     /\ puzzlesToday' > puzzlesToday => tasks' = <<>>
     /\ \A i \in 1..Len(tasks') : tasks'[i].puzzlesToday = puzzlesToday']_vars
\* the first puzzle was completed at the second guess: the callbacks of the
\* wrong guess and of the right one have run, and none is pending on the
\* second puzzle
C17_AdvancedAfterWrongGuess ==
  /\ page = "ready"
  /\ puzzlesToday = 1
  /\ scoreHistory = <<75>>
  /\ status = "idle"
  /\ tasks = <<>>

\* C18: in the step in which the in-memory puzzlesCompletedToday increases,
\* attempts becomes 0, the hint flag false, the guess empty and status
\* 'idle'; and within a page session no other step decreases attempts or
\* clears the hint flag.
C18_ResetExactlyOnAdvance ==
  [][/\ puzzlesToday' > puzzlesToday =>
          attempts' = 0 /\ ~showHint' /\ guess' = <<>> /\ status' = "idle"
     /\ (page' = page /\ (attempts' < attempts \/ (showHint /\ ~showHint'))) =>
          puzzlesToday' > puzzlesToday]_vars

\* the first puzzle was completed with its hint shown, and the advance has
\* hidden the hint and zeroed the attempts for the second puzzle
C18_AdvancedAfterHint ==
  /\ page = "ready"
  /\ puzzlesToday = 1
  /\ scoreHistory = <<0>>
  /\ attempts = 0
  /\ ~showHint
  /\ guess = <<>>
  /\ status = "idle"

\* C19: under fair scheduling of the digests and the timers a status
\* 'checking' is followed by 'success' or 'error', a status 'error' by 'idle'
\* with the guess cleared, and a status 'success' by the advance to 'idle'
\* (on the next puzzle or the done-for-day screen), unless the page is
\* reloaded first: the status is never stuck.
C19_StatusNeverStuck ==
  /\ (status = "checking") ~> (status \in {"success", "error"} \/ page = "mounting")
  /\ (status = "error") ~> ((status = "idle" /\ guess = <<>>) \/ page = "mounting")
  /\ (status = "success") ~> (status = "idle" \/ page = "mounting")
\* a wrong guess was verified and its error has settled
C19_ErrorSettled ==
  /\ status = "idle"
  /\ guess = <<>>
  /\ attempts = 1
  /\ wrongVerified = 1
  /\ tasks = <<>>
  /\ page = "ready"

\* C20: the stored session changes only when a correct guess is resolved or
\* when a load finds another date and stores the zero session; its in-memory
\* copies change only when the success delay of a correct guess ends, in a
\* load or when the page is reloaded. A wrong guess changes only status and
\* attempts, its error settle only status and the guess, and a hint reveal, a
\* share, a countdown tick and a screen change leave the session as it is.
C20_SessionFrame ==
  [][/\ \A i \in 1..Len(tasks) :
          /\ (Fired(i) /\ tasks[i].kind = "verify" /\ ~tasks[i].isCorrect) =>
                UNCHANGED <<store, puzzlesToday, score, scoreHistory, guess,
                            showHint, gameState, todaysPuzzles>>
          /\ (Fired(i) /\ tasks[i].kind = "retry") =>
                UNCHANGED <<store, puzzlesToday, score, scoreHistory, attempts,
                            showHint, gameState, todaysPuzzles>>
     /\ (showHint' /\ ~showHint) =>
          UNCHANGED <<store, puzzlesToday, score, scoreHistory, status, guess,
                      attempts, gameState>>
     /\ (probe' # probe /\ page' = page) => UNCHANGED <<memory, store>>
     /\ (/\ page = "ready" /\ page' = "ready"
         /\ gameState' # gameState /\ gameState' \in {"rules", "playing"}) =>
          UNCHANGED <<store, puzzlesToday, score, scoreHistory>>
     /\ store' # store =>
          \/ /\ LoadStep
             /\ DateChanged(store.date, DateString(zone, now))
             /\ store' = ZeroSession(DateString(zone, now))
          \/ \E i \in 1..Len(tasks) :
               Fired(i) /\ tasks[i].kind = "verify" /\ tasks[i].isCorrect
     /\ (puzzlesToday' # puzzlesToday \/ score' # score
           \/ scoreHistory' # scoreHistory) =>
          \/ LoadStep
          \/ page' = "mounting"
          \/ \E i \in 1..Len(tasks) : Fired(i) /\ tasks[i].kind = "advance"]_vars
\* a wrong guess has settled and the hint is shown, with nothing completed
C20_WrongGuessThenHint ==
  /\ page = "ready"
  /\ wrongVerified = 1
  /\ attempts = 1
  /\ status = "idle"
  /\ showHint
  /\ puzzlesToday = 0
  /\ store = ZeroSession(DateString(zone, now))

\* the sequence a holds every entry of the sequence b exactly once
IsPermutation(a, b) ==
  /\ Len(a) = Len(b)
  /\ \A k \in 1..Len(b) : Cardinality({p \in 1..Len(a) : a[p] = b[k]}) = 1

\* C21: every output of the generator is a word of 32 bits, so r = word / 2^32
\* lies in [0, 1); at every position i of the loop the exchange index j lies
\* in 0..i; the ids are a permutation of the pool after every iteration and
\* when they are returned, and a loop fed by seededRandom alone returns what
\* getMasterPuzzleList computes from the same seed.
C21_ShuffleIsPermutation ==
  /\ probe.r[1] \in 0..(Half - 1) /\ probe.r[2] \in 0..(Half - 1)
  /\ probe.seed[1] \in 0..(Half - 1) /\ probe.seed[2] \in 0..(Half - 1)
  /\ probe.pc # "start" => (0 <= probe.j /\ probe.j <= probe.at)
  /\ IsPermutation(probe.ids, probe.pool)
  /\ (probe.pc = "done" /\ probe.generated) =>
       probe.ids = Shuffle(probe.pool, Len(probe.pool) - 1, probe.start)
\* a pool of six ids has been shuffled and returned out of its first order,
\* the largest output below 1 having given j = i at the last position
C21_ShuffledToTheEdge ==
  /\ probe.pc = "done"
  /\ Len(probe.pool) = MaxOrder
  /\ probe.ids # probe.pool
  /\ probe.r = <<Half - 1, Half - 1>>
  /\ probe.at = 1
  /\ probe.j = 1

\* C22: in every reachable state the score is the sum of the history, in
\* memory and in the store as a load reads it, and the stored count of
\* completed puzzles is the length of the stored history, so no load reads
\* score, history and count that disagree.
C22_ScoreIsSumOfHistory ==
  /\ score = Sum(scoreHistory)
  /\ ~JSONParse(store.history).throws
  /\ ParseIntOr0(store.score) = Sum(JSONParse(store.history).val)
  /\ ParseIntOr0(store.puzzles) = Len(JSONParse(store.history).val)
\* a load has resumed the session a correct first guess of 100 points stored
C22_ResumedStoredAward ==
  /\ page = "ready"
  /\ ev = "loadResume"
  /\ store.score = <<"1", "0", "0">>
  /\ score = 100
  /\ scoreHistory = <<100>>
  /\ puzzlesToday = 1

====
